---------------------------- MODULE Spec2Model ----------------------------
(***************************************************************************)
(* The MQTT adapter of mainflux (src/mqtt/mqtt.js): the three broker hooks *)
(* authenticate / authorizePublish / authorizeSubscribe, the callbacks of  *)
(* their RPCs to the things service, the clientDisconnect handler, the     *)
(* connection event stream and the bridge from the internal bus            *)
(* (the 'channel.>' subscription) to MQTT.                                 *)
(*                                                                         *)
(* JavaScript strings that the code takes apart (topics, channel ids,      *)
(* subtopics, bus subjects) are sequences of one-character strings, so     *)
(* that split, join, filter, replace and the regular expression of         *)
(* parseTopic are computed character by character.  Opaque values (keys,   *)
(* thing ids, payloads, protocol names) are TLA+ strings.                  *)
(***************************************************************************)
EXTENDS Integers, Sequences, FiniteSets, TLC

VARIABLES
    clients,    \* client object of every connection: status, id, thingId, password
    connects,   \* the authenticate invocation of every connection, with its effects in order
    reqs,       \* the PUBLISH and SUBSCRIBE hook invocations, each with its closure and effects
    nats,       \* what the adapter handed to nats.publish, in order
    bus,        \* encoded messages on the internal bus not yet delivered to the bridge
    bridged,    \* what the 'channel.>' handler received, in order
    mqtt,       \* packets the bridge handed to aedes.publish, in order
    stream,     \* records appended to the event stream, in order
    extCount,   \* messages other services have published on the bus so far
    rt,         \* the input and results of the topic translation under SpecTopic
    outbound,   \* the calls made to remote services, and the breaker of the publisher
    svc,        \* the things service: its things, channels and connections
    fleet,      \* adapter instances sharing the bus and the emitter
    process,    \* the Node.js process of the adapter: running, or exited
    boot,       \* the statements of the adapter's module evaluated so far, and what was closed
    writer,     \* the consumer of a writer service: its channel list and what it did with each message
    ui          \* the Message page of the UI: its model and the commands of its last update

\* the start of the adapter and the programs that are not the adapter
apart == <<boot, writer, ui>>

\* the components next to the single adapter
peers == <<outbound, svc, fleet, apart>>

vars == <<clients, connects, reqs, nats, bus, bridged, mqtt, stream, extCount, rt, outbound, svc, fleet,
          process, boot, writer, ui>>

--------------------------------------------------------------------------
(* Bounds of the model *)

\* what reaches the adapter after the CONNECTs: PUBLISH and SUBSCRIBE packets
\* of the devices and messages other services publish on the bus, together
MaxInputs == 1
\* length of the channel ids the topic translation is tried on
MaxIdLen == 2
\* number of segments of the subtopics the topic translation is tried on
MaxSegs == 2

--------------------------------------------------------------------------
(* JavaScript string primitives *)

Min(S) == CHOOSE m \in S : \A n \in S : m <= n

RECURSIVE splitFrom(_, _, _, _)
splitFrom(s, sep, i, cur) ==
    IF i > Len(s) THEN <<cur>>
    ELSE IF s[i] = sep THEN <<cur>> \o splitFrom(s, sep, i + 1, <<>>)
    ELSE splitFrom(s, sep, i + 1, Append(cur, s[i]))

\* String.prototype.split(sep) with a one-character separator
split(s, sep) == splitFrom(s, sep, 1, <<>>)

RECURSIVE join(_, _)
\* Array.prototype.join(sep); [].join(sep) is ''
join(parts, sep) ==
    IF Len(parts) = 0 THEN <<>>
    ELSE IF Len(parts) = 1 THEN parts[1]
    ELSE parts[1] \o <<sep>> \o join(Tail(parts), sep)

\* Array.prototype.slice(n)
slice(a, n) == SubSeq(a, n + 1, Len(a))

\* the filter callback of authorizePublish: true for the elements that are kept
isEmpty(value) == value # <<>>

\* Array.prototype.filter(isEmpty)
filter(a) == SelectSeq(a, isEmpty)

\* String.prototype.includes(ch)
includes(s, ch) == \E i \in 1..Len(s) : s[i] = ch

\* String.prototype.replace(/\./g, '/')
replaceDots(s) == [i \in 1..Len(s) |-> IF s[i] = "." THEN "/" ELSE s[i]]

\* the string s has p at index i
startsWithAt(s, p, i) ==
    /\ i + Len(p) - 1 <= Len(s)
    /\ \A k \in 1..Len(p) : s[i + k - 1] = p[k]

S_channelsSlash == <<"c", "h", "a", "n", "n", "e", "l", "s", "/">>
S_slashMessages == <<"/", "m", "e", "s", "s", "a", "g", "e", "s">>
S_channelDot    == <<"c", "h", "a", "n", "n", "e", "l", ".">>

\* the result of RegExp.exec when nothing matches (falsy, like every result
\* of exec that is not an array)
noMatch == <<>>

\* JavaScript's null and undefined, as values of string-typed fields
null == "null"
undefined == "undefined"

--------------------------------------------------------------------------
(* Topic translation *)

\* the characters the '.' of a regular expression does not match
LineTerminators == {"\n", "\r"}

\* /^channels\/(.+?)\/messages\/?.*$/.exec(topic): the topic starts with
\* 'channels/', the lazy group (.+?) is the shortest non-empty run without
\* a line terminator that is followed by '/messages', and '\/?.*$' takes
\* what is left, which must reach the end of the topic without a line
\* terminator.  The result is null or the array [topic, group];
\* JavaScript's channel[1] is index 2 here.
parseTopic(topic) ==
    LET first == Len(S_channelsSlash) + 1
        dots(from, to) == \A i \in from..to : topic[i] \notin LineTerminators
        ends  == {j \in first..Len(topic) :
                    /\ startsWithAt(topic, S_slashMessages, j + 1)
                    /\ dots(first, j)
                    /\ dots(j + 1 + Len(S_slashMessages), Len(topic))}
    IN  IF startsWithAt(topic, S_channelsSlash, 1) /\ ends # {}
        THEN <<topic, SubSeq(topic, first, Min(ends))>>
        ELSE noMatch

\* first 3 elements, which represent the base part of the topic
baseLength == 3

\* packet.topic.split('/').slice(baseLength).join('.').split('.').filter(isEmpty)
elementsOf(topic) ==
    filter(split(join(slice(split(topic, "/"), baseLength), "."), "."))

\* a bug: the length test is off by one
invalidElement_longer(el) ==
    Len(el) > 2 /\ (includes(el, "*") \/ includes(el, ">"))

\* the condition of the loop body that rejects a subtopic element
invalidElement(el) ==
    Len(el) > 1 /\ (includes(el, "*") \/ includes(el, ">"))

\* the for loop of authorizePublish reaches publish(4)
invalidSubtopic(elements) ==
    \E i \in 1..Len(elements) : invalidElement(elements[i])

\* baseTopic = 'channel.' + channelId
baseTopicOf(channelId) == S_channelDot \o channelId

\* elements.length ? baseTopic + '.' + elements.join('.') : baseTopic
channelTopicOf(channelId, elements) ==
    IF Len(elements) # 0
    THEN baseTopicOf(channelId) \o <<".">> \o join(elements, ".")
    ELSE baseTopicOf(channelId)

\* a bug: the dots of the subtopic are left as they are
renderTopic_dots(m) ==
    LET subtopic == IF m.subtopic # <<>> THEN <<"/">> \o m.subtopic ELSE <<>>
    IN  S_channelsSlash \o m.channel \o S_slashMessages \o subtopic

\* the topic the bridge renders from a decoded message:
\* 'channels/' + m.channel + '/messages' + subtopic, where subtopic is
\* '/' + m.subtopic.replace(/\./g, '/') unless m.subtopic is ''
renderTopic(m) ==
    LET subtopic == IF m.subtopic # <<>> THEN <<"/">> \o replaceDots(m.subtopic) ELSE <<>>
    IN  S_channelsSlash \o m.channel \o S_slashMessages \o subtopic

--------------------------------------------------------------------------
(* Envelope codec *)

\* message.RawMessage.encode: the fields that are set, as tag/value pairs
encode(m) ==
    LET fields == <<"publisher", "channel", "subtopic", "protocol", "payload">>
        opaque == {"publisher", "protocol", "payload"}
        set(f) == f \in DOMAIN m /\ (f \in opaque => m[f] # undefined)
    IN  [i \in 1..Len(SelectSeq(fields, set)) |->
            <<SelectSeq(fields, set)[i], m[SelectSeq(fields, set)[i]]>>]

\* message.RawMessage.decode: every field of the schema, a field that is
\* not on the wire at its default
decode(data) ==
    LET has(f) == \E i \in 1..Len(data) : data[i][1] = f
        get(f, default) ==
            IF has(f) THEN data[CHOOSE i \in 1..Len(data) : data[i][1] = f][2] ELSE default
    IN  [publisher |-> get("publisher", ""),
         channel   |-> get("channel", <<>>),
         subtopic  |-> get("subtopic", <<>>),
         protocol  |-> get("protocol", ""),
         payload   |-> get("payload", "")]

--------------------------------------------------------------------------
(* The connections, the things service and the other services on the bus *)

\* the connections; each is one aedes Client object
Clients == {"c1", "c2"}

\* the client id of each connection's CONNECT packet ('' when absent)
packetClientId(c) == IF c = "c1" THEN "" ELSE "d2"

\* what the CONNECT packet of each connection may carry
Usernames == {"u1"}
Passwords(c) == IF c = "c1" THEN {undefined, "k1"} ELSE {"k2"}

\* the things service knows two keys; Identify answers the thing of a known
\* key and fails for any other
thingOf(key) == IF key = "k1" THEN "t1" ELSE "t2"
KnownKeys == {"k1", "k2"}

\* Identify can succeed for this request (any call can fail: the service
\* may be unavailable)
identifies(identity) == identity.value \in KnownKeys

\* the things service has one channel; the thing of key k2 is connected to
\* it and the thing of key k1 is not
Channels == { <<"a">> }
Connected == { <<"k2", ch>> : ch \in Channels }

\* CanAccess can succeed for this request: the key is the key of a thing
\* connected to the channel, which exists
canAccess(accessReq) == <<accessReq.token, accessReq.chanID>> \in Connected

Payloads == {"p1"}

T_base == S_channelsSlash \o <<"a">> \o S_slashMessages
\* the topics of the PUBLISH packets the devices send
Topics ==
    { T_base,                                               \* channels/a/messages
      T_base \o <<"/", "b", "/", "c">>,                     \* channels/a/messages/b/c
      T_base \o <<"/", "/", "b", ".", "/">>,                \* channels/a/messages//b./
      T_base \o <<"/", "b", "*">>,                          \* channels/a/messages/b*
      T_base \o <<"/", ">">>,                               \* channels/a/messages/>
      T_base \o <<"x">>,                                    \* channels/a/messagesx
      S_channelsSlash \o <<"a", "/", "b">> \o S_slashMessages \o <<"/", "c">>,
                                                            \* channels/a/b/messages/c
      <<"c", "h", "/", "a">> \o S_slashMessages }           \* ch/a/messages

\* the first connection, whose thing no channel knows, sends one of them
TopicsOf(c) == IF c = "c2" THEN Topics ELSE { T_base \o <<"/", "b", "/", "c">> }

\* the topic filters of the SUBSCRIBE packets the devices send
Filters ==
    { T_base \o <<"/", "#">>,                               \* channels/a/messages/#
      T_base \o <<"x">>,                                    \* channels/a/messagesx
      <<"c", "h", "/", "a">> \o S_slashMessages }           \* ch/a/messages

FiltersOf(c) == IF c = "c2" THEN Filters ELSE { T_base \o <<"/", "#">> }

\* the envelopes other services publish on the bus: from an HTTP adapter
\* with and without a subtopic, and one that says it came over MQTT
ExtMessages ==
    { [publisher |-> "t9", channel |-> <<"a">>, subtopic |-> m[1],
       protocol |-> m[2], payload |-> "p2"] :
        m \in { <<<<>>, "http">>, <<<<"b", ".", "c">>, "http">>, <<<<>>, "mqtt">> } }

\* config.instance_id
instance_id == "i1"

\* Math.round((new Date()).getTime() / 1000); the clock is not modelled
timestamp == "now"

--------------------------------------------------------------------------
(* State *)

none == [hook |-> "none", pending |-> FALSE, trace |-> <<>>]

\* the peers before anything has been asked of them
noOutbound == [calls |-> <<>>]
noService == [op |-> "none"]
noFleet == [op |-> "none"]
noWriter == [op |-> "none"]
noUi == [op |-> "none"]

\* the top-level statements of mqtt.js that create or start a component, in
\* the order of the file: module evaluation runs them one after the other
moduleInitialisation ==
    <<"nats", "aedesRedis", "mqRedis", "aedes", "things", "esclient",
      "startMqtt", "startWs", "nats.subscribe">>

\* the adapter once its module has been evaluated: nothing in mqtt.js closes
\* a component
booted == [loaded |-> moduleInitialisation, closed |-> <<>>, signal |-> "none"]

TypeOK ==
    /\ DOMAIN clients = Clients
    /\ \A c \in Clients :
          /\ clients[c].status \in {"new", "authenticating", "connected", "closed"}
          /\ clients[c].thingId \in {thingOf(k) : k \in KnownKeys} \cup {undefined}
          /\ clients[c].password \in Passwords(c) \cup {"", null, undefined}
    /\ extCount \in 0..MaxInputs

Init ==
    /\ clients = [c \in Clients |->
                    [status |-> "new", id |-> packetClientId(c),
                     thingId |-> undefined, password |-> undefined]]
    /\ connects = [c \in Clients |-> none]
    /\ reqs = <<>>
    /\ nats = <<>>
    /\ bus = {}
    /\ bridged = <<>>
    /\ mqtt = <<>>
    /\ stream = <<>>
    /\ extCount = 0
    /\ process = "running"
    /\ boot = booted
    /\ writer = noWriter
    /\ ui = noUi
    /\ rt = [op |-> "none"]
    /\ outbound = noOutbound
    /\ svc = noService
    /\ fleet = noFleet

\* the packets and bus messages that have reached the adapter
inputs == Len(reqs) + extCount

\* the effects of packet request r so far, with more
did(r, effects) == [reqs EXCEPT ![r].trace = @ \o effects, ![r].pending = FALSE]

--------------------------------------------------------------------------
(* Connection events *)

\* a bug: the event type is given before the timestamp
connEvent_typeFirst(id, type) ==
    << <<"thing_id", id>>, <<"event_type", type>>,
       <<"timestamp", timestamp>>, <<"instance", instance_id>> >>

\* the fields esclient.xadd is given, in the order it is given them
connEvent(id, type) ==
    << <<"thing_id", id>>, <<"timestamp", timestamp>>,
       <<"event_type", type>>, <<"instance", instance_id>> >>

\* a bug: the record is appended twice
publishConnEvent_twice(id, type, ok) ==
    stream' = IF ok THEN Append(Append(stream, connEvent(id, type)), connEvent(id, type))
              ELSE stream

\* publishConnEvent(id, type): the append reaches the stream (ok) or fails;
\* onPublish only logs the failure
publishConnEvent(id, type, ok) ==
    stream' = IF ok THEN Append(stream, connEvent(id, type)) ELSE stream

--------------------------------------------------------------------------
(* aedes.authenticate *)

\* pass = (password || '').toString()
passOf(password) == IF password \in {undefined, null, ""} THEN "" ELSE password

\* a bug: the thing is identified by the username
identityOf_username(username, password) == [value |-> username]

\* identity = {value: pass}
identityOf(username, password) == [value |-> passOf(password)]

\* aedes.authenticate(client, username, password, acknowledge), up to the
\* call things.identify(identity, onIdentify)
Authenticate(c, username, password) ==
    /\ process = "running"
    /\ clients[c].status = "new"
    /\ clients' = [clients EXCEPT ![c].status = "authenticating"]
    /\ connects' = [connects EXCEPT ![c] =
            [hook |-> "authenticate", client |-> c, username |-> username,
             password |-> password, pass |-> passOf(password), pending |-> TRUE,
             trace |-> << [e |-> "things.identify",
                           req |-> identityOf(username, password)] >>]]
    /\ UNCHANGED <<reqs, nats, bus, bridged, mqtt, stream, extCount, rt, peers, process>>

\* a bug: the thing id is not kept on the client
identified_noThing(client, value, pass) ==
    [client EXCEPT !.id = IF client.id \in {"", undefined, null} THEN value ELSE client.id,
                   !.password = pass]

\* the client object after the assignments of onIdentify's success branch:
\* client.thingId = res.value.toString() || '', client.id = client.id ||
\* client.thingId, client.password = pass
identified(client, value, pass) ==
    [client EXCEPT !.thingId = value,
                   !.id = IF client.id \in {"", undefined, null} THEN value ELSE client.id,
                   !.password = pass]

\* a bug: the connection is accepted only when the 'connect' record was
\* appended, and refused when the append failed
OnIdentify_appendDecides(c, err, ok) ==
    /\ process = "running"
    /\ connects[c].pending
    /\ err \/ identifies(connects[c].trace[1].req)
    /\ LET value == thingOf(connects[c].trace[1].req.value)
           after == identified(clients[c], value, connects[c].pass)
       IN  IF ~err /\ ok
           THEN /\ clients' = [clients EXCEPT ![c] = [after EXCEPT !.status = "connected"]]
                /\ connects' = [connects EXCEPT
                      ![c].pending = FALSE,
                      ![c].trace = @ \o
                          << [e |-> "ret", err |-> FALSE, value |-> value],
                             [e |-> "acknowledge", err |-> FALSE, ok |-> TRUE],
                             [e |-> "publishConnEvent", id |-> after.thingId,
                              type |-> "connect"] >>]
                /\ publishConnEvent(after.thingId, "connect", ok)
           ELSE /\ clients' = [clients EXCEPT ![c].status = "closed"]
                /\ connects' = [connects EXCEPT
                      ![c].pending = FALSE,
                      ![c].trace = @ \o
                          << [e |-> "ret", err |-> err, value |-> undefined],
                             [e |-> "acknowledge", err |-> TRUE, ok |-> FALSE] >>]
                /\ UNCHANGED stream
    /\ UNCHANGED <<reqs, nats, bus, bridged, mqtt, extCount, rt, peers, process>>

\* onIdentify(err, res), the callback of things.identify; the broker marks
\* the connection connected on acknowledge(null, true) and closes it on
\* acknowledge(err, false)
OnIdentify(c, err, ok) ==
    /\ process = "running"
    /\ connects[c].pending
    /\ err \/ identifies(connects[c].trace[1].req)
    /\ LET value == thingOf(connects[c].trace[1].req.value)
           after == identified(clients[c], value, connects[c].pass)
       IN  IF ~err
           THEN /\ clients' = [clients EXCEPT ![c] = [after EXCEPT !.status = "connected"]]
                /\ connects' = [connects EXCEPT
                      ![c].pending = FALSE,
                      ![c].trace = @ \o
                          << [e |-> "ret", err |-> FALSE, value |-> value],
                             [e |-> "acknowledge", err |-> FALSE, ok |-> TRUE],
                             [e |-> "publishConnEvent", id |-> after.thingId,
                              type |-> "connect"] >>]
                /\ publishConnEvent(after.thingId, "connect", ok)
           ELSE /\ clients' = [clients EXCEPT ![c].status = "closed"]
                /\ connects' = [connects EXCEPT
                      ![c].pending = FALSE,
                      ![c].trace = @ \o
                          << [e |-> "ret", err |-> TRUE, value |-> undefined],
                             [e |-> "acknowledge", err |-> TRUE, ok |-> FALSE] >>]
                /\ UNCHANGED stream
    /\ UNCHANGED <<reqs, nats, bus, bridged, mqtt, extCount, rt, peers, process>>

\* a bug: the event names the MQTT client id
ClientDisconnect_clientId(c, ok) ==
    /\ process = "running"
    /\ clients[c].status = "connected"
    /\ clients' = [clients EXCEPT ![c].password = null, ![c].status = "closed"]
    /\ publishConnEvent(clients[c].id, "disconnect", ok)
    /\ UNCHANGED <<connects, reqs, nats, bus, bridged, mqtt, extCount, rt, peers, process>>

\* a bug: the password stays on the client
ClientDisconnect_keepsPassword(c, ok) ==
    /\ process = "running"
    /\ clients[c].status = "connected"
    /\ clients' = [clients EXCEPT ![c].status = "closed"]
    /\ publishConnEvent(clients[c].thingId, "disconnect", ok)
    /\ UNCHANGED <<connects, reqs, nats, bus, bridged, mqtt, extCount, rt, peers, process>>

\* aedes.on('clientDisconnect'): client.password = null, then
\* publishConnEvent(client.thingId, 'disconnect')
ClientDisconnect(c, ok) ==
    /\ process = "running"
    /\ clients[c].status = "connected"
    /\ clients' = [clients EXCEPT ![c].password = null, ![c].status = "closed"]
    /\ publishConnEvent(clients[c].thingId, "disconnect", ok)
    /\ UNCHANGED <<connects, reqs, nats, bus, bridged, mqtt, extCount, rt, peers, process>>

--------------------------------------------------------------------------
(* aedes.authorizePublish *)

\* accessReq = {token: client.password, chanID: channelId}
accessReqOf(client, channelId) == [token |-> client.password, chanID |-> channelId]

\* a bug: a PUBLISH on a channel for which the connection already had a
\* PUBLISH accepted is accepted without asking the things service again
authorizePublish_cached(c, topic, payload) ==
    /\ process = "running"
    /\ LET channel == parseTopic(topic)
           channelId == channel[2]
           elements == elementsOf(topic)
           packet == [hook |-> "authorizePublish", client |-> c, topic |-> topic,
                      payload |-> payload, status |-> clients[c].status]
           cached == \E q \in 1..Len(reqs) :
                        /\ reqs[q].hook = "authorizePublish"
                        /\ reqs[q].client = c
                        /\ reqs[q].trace[1].e = "things.CanAccess"
                        /\ reqs[q].channelId = channelId
                        /\ \E l \in 1..Len(reqs[q].trace) :
                              reqs[q].trace[l].e = "publish" /\ reqs[q].trace[l].code = 0
       IN  reqs' = Append(reqs,
              IF channel = noMatch
              THEN packet @@ [pending |-> FALSE,
                              trace |-> << [e |-> "publish", code |-> 4] >>]
              ELSE IF invalidSubtopic(elements)
              THEN packet @@ [pending |-> FALSE,
                              trace |-> << [e |-> "publish", code |-> 4] >>]
              ELSE IF cached
              THEN packet @@ [pending |-> FALSE,
                              trace |-> << [e |-> "publish", code |-> 0] >>]
              ELSE packet @@ [pending |-> TRUE,
                              channelId |-> channelId,
                              elements |-> elements,
                              channelTopic |-> channelTopicOf(channelId, elements),
                              trace |-> << [e |-> "things.CanAccess",
                                            req |-> accessReqOf(clients[c], channelId)] >>])
    /\ UNCHANGED <<clients, connects, nats, bus, bridged, mqtt, stream, extCount, rt, peers, process>>

\* aedes.authorizePublish(client, packet, publish), up to its return: an
\* unknown topic or an invalid subtopic is refused at once, anything else
\* goes to things.CanAccess(accessReq, onAuthorize)
authorizePublish(c, topic, payload) ==
    /\ process = "running"
    /\ LET channel == parseTopic(topic)
           channelId == channel[2]
           elements == elementsOf(topic)
           packet == [hook |-> "authorizePublish", client |-> c, topic |-> topic,
                      payload |-> payload, status |-> clients[c].status]
       IN  reqs' = Append(reqs,
              IF channel = noMatch
              THEN packet @@ [pending |-> FALSE,
                              trace |-> << [e |-> "publish", code |-> 4] >>]
              ELSE IF invalidSubtopic(elements)
              THEN packet @@ [pending |-> FALSE,
                              trace |-> << [e |-> "publish", code |-> 4] >>]
              ELSE packet @@ [pending |-> TRUE,
                              channelId |-> channelId,
                              elements |-> elements,
                              channelTopic |-> channelTopicOf(channelId, elements),
                              trace |-> << [e |-> "things.CanAccess",
                                            req |-> accessReqOf(clients[c], channelId)] >>])
    /\ UNCHANGED <<clients, connects, nats, bus, bridged, mqtt, stream, extCount, rt, peers, process>>

\* a PUBLISH packet of a device reaches the hook
AuthorizePublish(c, topic, payload) ==
    /\ inputs < MaxInputs
    /\ clients[c].status = "connected"
    /\ authorizePublish(c, topic, payload)

\* a bug: the envelope names the MQTT client id as its publisher
rawMsgOf_clientId(client, channelId, elements, payload) ==
    [publisher |-> client.id,
     channel   |-> channelId,
     subtopic  |-> join(elements, "."),
     protocol  |-> "mqtt",
     payload   |-> payload]

\* a bug: the envelope does not say which protocol it came in on
rawMsgOf_noProtocol(client, channelId, elements, payload) ==
    [publisher |-> client.thingId,
     channel   |-> channelId,
     subtopic  |-> join(elements, "."),
     payload   |-> payload]

\* the envelope onAuthorize encodes; client.thingId is read when the
\* callback runs
rawMsgOf(client, channelId, elements, payload) ==
    [publisher |-> client.thingId,
     channel   |-> channelId,
     subtopic  |-> join(elements, "."),
     protocol  |-> "mqtt",
     payload   |-> payload]

\* a bug: the success branch is taken whatever CanAccess answered
authorized_always(err) == TRUE

\* the test of onAuthorize: the success branch is taken
authorized(err) == ~err

\* onAuthorize(err, res) of authorizePublish, the callback of
\* things.CanAccess: on success encode, nats.publish(channelTopic, rawMsg)
\* and publish(0); on error publish(4).  nats.publish is given no
\* callback and its result is not looked at: what it is handed travels on
\* the bus to the subscribers of its subject when the bus is up, and is
\* lost when it is not.
OnAuthorizePublish(r, err, up) ==
    /\ process = "running"
    /\ err => up
    /\ r \in 1..Len(reqs)
    /\ reqs[r].hook = "authorizePublish"
    /\ reqs[r].pending
    /\ err \/ canAccess(reqs[r].trace[1].req)
    /\ LET q == reqs[r]
           rawMsg == encode(rawMsgOf(clients[q.client], q.channelId, q.elements, q.payload))
           sent == [subject |-> q.channelTopic, data |-> rawMsg, req |-> r, up |-> up]
       IN  IF authorized(err)
           THEN /\ nats' = Append(nats, sent)
                /\ bus' = IF up
                          THEN bus \cup {[from |-> "mqtt-adapter", n |-> Len(nats) + 1,
                                          subject |-> q.channelTopic, data |-> rawMsg]}
                          ELSE bus
                /\ reqs' = did(r, << [e |-> "ret", err |-> err],
                                      [e |-> "nats.publish", subject |-> q.channelTopic,
                                       data |-> rawMsg],
                                      [e |-> "publish", code |-> 0] >>)
           ELSE /\ reqs' = did(r, << [e |-> "ret", err |-> err],
                                      [e |-> "publish", code |-> 4] >>)
                /\ UNCHANGED <<nats, bus>>
    /\ UNCHANGED <<clients, connects, bridged, mqtt, stream, extCount, rt, peers, process>>

--------------------------------------------------------------------------
(* aedes.authorizeSubscribe *)

\* aedes.authorizeSubscribe(client, packet, subscribe), up to its return:
\* an unknown topic is refused at once, anything else goes to
\* things.canAccess(accessReq, onAuthorize)
authorizeSubscribe(c, topic) ==
    /\ process = "running"
    /\ LET channel == parseTopic(topic)
           channelId == channel[2]
           packet == [hook |-> "authorizeSubscribe", client |-> c, topic |-> topic,
                      status |-> clients[c].status]
       IN  reqs' = Append(reqs,
              IF channel = noMatch
              THEN packet @@ [pending |-> FALSE,
                              trace |-> << [e |-> "subscribe", err |-> "4"] >>]
              ELSE packet @@ [pending |-> TRUE,
                              channelId |-> channelId,
                              trace |-> << [e |-> "things.canAccess",
                                            req |-> accessReqOf(clients[c], channelId)] >>])
    /\ UNCHANGED <<clients, connects, nats, bus, bridged, mqtt, stream, extCount, rt, peers, process>>

\* one topic filter of a SUBSCRIBE packet of a device reaches the hook
AuthorizeSubscribe(c, topic) ==
    /\ inputs < MaxInputs
    /\ clients[c].status = "connected"
    /\ authorizeSubscribe(c, topic)

\* a bug: the subscription is granted whatever CanAccess answered
subscribeErr_never(err) == null

\* the first argument of the subscribe callback in onAuthorize: null on
\* success, 4 on error (written "4": it shares a field with null)
subscribeErr(err) == IF ~err THEN null ELSE "4"

\* a bug: a refusal is only logged, the broker is not called back
OnAuthorizeSubscribe_silent(r, err) ==
    /\ process = "running"
    /\ r \in 1..Len(reqs)
    /\ reqs[r].hook = "authorizeSubscribe"
    /\ reqs[r].pending
    /\ err \/ canAccess(reqs[r].trace[1].req)
    /\ reqs' = did(r, IF err
                      THEN << [e |-> "ret", err |-> err] >>
                      ELSE << [e |-> "ret", err |-> err],
                              [e |-> "subscribe", err |-> subscribeErr(err)] >>)
    /\ UNCHANGED <<clients, connects, nats, bus, bridged, mqtt, stream, extCount, rt, peers, process>>

\* onAuthorize(err, res) of authorizeSubscribe: subscribe(null, packet) on
\* success, subscribe(4, packet) on error
OnAuthorizeSubscribe(r, err) ==
    /\ process = "running"
    /\ r \in 1..Len(reqs)
    /\ reqs[r].hook = "authorizeSubscribe"
    /\ reqs[r].pending
    /\ err \/ canAccess(reqs[r].trace[1].req)
    /\ reqs' = did(r, << [e |-> "ret", err |-> err],
                          [e |-> "subscribe", err |-> subscribeErr(err)] >>)
    /\ UNCHANGED <<clients, connects, nats, bus, bridged, mqtt, stream, extCount, rt, peers, process>>

--------------------------------------------------------------------------
(* The internal bus and the bridge to MQTT *)

\* a message cut short on its way: the last field has lost its value
truncated(data) == [data EXCEPT ![Len(data)] = <<data[Len(data)][1]>>]

\* message.RawMessage.decode does not fail on this message
decodable(data) == \A i \in 1..Len(data) : Len(data[i]) = 2

\* something publishes on a subject under 'channel.': the encoding of an
\* envelope, whole or cut short
externalPublish(m, intact) ==
    /\ extCount' = extCount + 1
    /\ bus' = bus \cup {[from |-> "other", n |-> extCount + 1,
                         subject |-> channelTopicOf(m.channel,
                                                    filter(split(m.subtopic, "."))),
                         data |-> IF intact THEN encode(m) ELSE truncated(encode(m))]}
    /\ UNCHANGED <<clients, connects, reqs, nats, bridged, mqtt, stream, rt, peers, process>>

\* another service publishes an envelope on the bus
ExternalPublish(m) ==
    /\ inputs < MaxInputs
    /\ externalPublish(m, TRUE)

\* a bug: the handler forwards whatever it decodes
forwarded_always(m) == TRUE

\* the test of the handler: m && m.protocol !== 'mqtt'
forwarded(m) == m.protocol # "mqtt"

\* a bug: the packet is published at most once
packetOf_qos0(m) ==
    [cmd |-> "publish", qos |-> 0, topic |-> renderTopic(m),
     payload |-> m.payload, retain |-> FALSE]

\* the packet the handler builds
packetOf(m) ==
    [cmd |-> "publish", qos |-> 2, topic |-> renderTopic(m),
     payload |-> m.payload, retain |-> FALSE]

\* the handler of nats.subscribe('channel.>', {queue: 'mqtts'}): decode the
\* message and, unless its protocol is 'mqtt', aedes.publish the packet
\* rendered from it.  A message that cannot be decoded makes decode throw:
\* the handler does not catch it and nothing of mqtt.js does, so either the
\* caller of the handler survives the exception or the process exits.
Bridge(msg, survives) ==
    /\ process = "running"
    /\ msg \in bus
    /\ decodable(msg.data) => survives
    /\ bus' = bus \ {msg}
    /\ bridged' = Append(bridged, msg)
    /\ IF decodable(msg.data)
       THEN /\ LET m == decode(msg.data)
               IN  mqtt' = IF forwarded(m)
                           THEN Append(mqtt, [packet |-> packetOf(m),
                                              of |-> Len(bridged) + 1])
                           ELSE mqtt
            /\ UNCHANGED process
       ELSE /\ mqtt' = mqtt
            /\ process' = IF survives THEN "running" ELSE "exited"
    /\ UNCHANGED <<clients, connects, reqs, nats, stream, extCount, rt, peers>>

--------------------------------------------------------------------------
(* The adapter *)

Next ==
    \/ \E c \in Clients, u \in Usernames : \E p \in Passwords(c) : Authenticate(c, u, p)
    \/ \E c \in Clients, ok \in BOOLEAN : OnIdentify(c, FALSE, ok)
    \/ \E c \in Clients : OnIdentify(c, TRUE, FALSE)
    \/ \E c \in Clients, ok \in BOOLEAN : ClientDisconnect(c, ok)
    \/ \E c \in Clients, p \in Payloads :
          \E t \in TopicsOf(c) : AuthorizePublish(c, t, p)
    \/ \E r \in 1..Len(reqs), err \in BOOLEAN, up \in BOOLEAN :
          OnAuthorizePublish(r, err, up)
    \/ \E c \in Clients : \E t \in FiltersOf(c) : AuthorizeSubscribe(c, t)
    \/ \E r \in 1..Len(reqs), err \in BOOLEAN : OnAuthorizeSubscribe(r, err)
    \/ \E m \in ExtMessages : ExternalPublish(m)
    \/ \E msg \in bus : Bridge(msg, TRUE)

Spec == Init /\ [][Next]_vars

--------------------------------------------------------------------------
(* One session: a device that sends several packets over one connection, *)
(* each answered by the things service in its own time                   *)

\* the PUBLISH and SUBSCRIBE packets of the session
MaxPackets == 2

\* the connection of the session; its thing is connected to the channel
Device == "c2"

SessionTopics ==
    { T_base,                                               \* channels/a/messages
      T_base \o <<"/", "b", "/", "c">>,                     \* channels/a/messages/b/c
      T_base \o <<"/", "b", "*">>,                          \* channels/a/messages/b*
      <<"c", "h", "/", "a">> \o S_slashMessages }           \* ch/a/messages

SessionFilters ==
    { T_base \o <<"/", "#">>,                               \* channels/a/messages/#
      <<"c", "h", "/", "a">> \o S_slashMessages }           \* ch/a/messages

\* the next PUBLISH of the session reaches the hook
SessionPublish(topic, payload) ==
    /\ Len(reqs) < MaxPackets
    /\ clients[Device].status = "connected"
    /\ authorizePublish(Device, topic, payload)

\* the next SUBSCRIBE of the session reaches the hook
SessionSubscribe(topic) ==
    /\ Len(reqs) < MaxPackets
    /\ clients[Device].status = "connected"
    /\ authorizeSubscribe(Device, topic)

\* the hook gave its callback an error: publish(4) or subscribe(4, packet)
reportedError(q) ==
    \E l \in 1..Len(q.trace) :
       \/ q.trace[l].e = "publish" /\ q.trace[l].code = 4
       \/ q.trace[l].e = "subscribe" /\ q.trace[l].err = "4"

\* the broker may close a connection whose hook reported an error, as it
\* closes one on any client error; the clientDisconnect handler then runs
\* for it: client.password = null and publishConnEvent(client.thingId,
\* 'disconnect')
CloseOnError(r, ok) ==
    /\ process = "running"
    /\ r \in 1..Len(reqs)
    /\ reportedError(reqs[r])
    /\ clients[reqs[r].client].status = "connected"
    /\ clients' = [clients EXCEPT ![reqs[r].client].password = null,
                                  ![reqs[r].client].status = "closed"]
    /\ publishConnEvent(clients[reqs[r].client].thingId, "disconnect", ok)
    /\ reqs' = [reqs EXCEPT ![r].trace = Append(@, [e |-> "clientDisconnect"])]
    /\ UNCHANGED <<connects, nats, bus, bridged, mqtt, extCount, rt, peers, process>>

NextSession ==
    \/ \E u \in Usernames, p \in Passwords(Device) : Authenticate(Device, u, p)
    \/ \E ok \in BOOLEAN : OnIdentify(Device, FALSE, ok)
    \/ OnIdentify(Device, TRUE, FALSE)
    \/ \E ok \in BOOLEAN : ClientDisconnect(Device, ok)
    \/ \E t \in SessionTopics, p \in Payloads : SessionPublish(t, p)
    \/ \E r \in 1..Len(reqs), err \in BOOLEAN, up \in BOOLEAN :
          OnAuthorizePublish(r, err, up)
    \/ \E t \in SessionFilters : SessionSubscribe(t)
    \/ \E r \in 1..Len(reqs), err \in BOOLEAN : OnAuthorizeSubscribe(r, err)
    \/ \E r \in 1..Len(reqs), ok \in BOOLEAN : CloseOnError(r, ok)

SpecSession == Init /\ [][NextSession]_vars

\* the session when the things service answers every Identify and is free
\* never to answer a CanAccess: the adapter arms no timer and gives its
\* calls no deadline, so no step of its own follows an unanswered call
SpecUnanswered ==
    /\ Init
    /\ [][NextSession]_vars
    /\ WF_vars(\E ok \in BOOLEAN : OnIdentify(Device, FALSE, ok))

--------------------------------------------------------------------------
(* The bridge on its own: whatever is published under 'channel.' reaches *)
(* the handler, well-formed or not                                       *)

\* the messages published on the bus
MaxBusMsgs == 2

\* the envelopes on the bus: with and without a subtopic, one that came over
\* MQTT, and envelopes whose channel or subtopic no MQTT topic can carry
BridgeMessages ==
    { [publisher |-> "t9", channel |-> m[1], subtopic |-> m[2],
       protocol |-> m[3], payload |-> "p2"] :
        m \in { << <<"a">>, <<>>, "http" >>,
                << <<"a">>, <<"b", ".", "c">>, "http" >>,
                << <<"a">>, <<>>, "mqtt" >>,
                << <<>>, <<>>, "http" >>,
                << <<"a", "/", "b">>, <<>>, "http" >>,
                << <<"a", ".", "b">>, <<>>, "http" >>,
                << <<"a">>, <<"b", "*">>, "http" >>,
                << <<"a">>, <<"b", ".", ">">>, "http" >> } }

\* something publishes under 'channel.'
BusPublish(m, intact) ==
    /\ extCount < MaxBusMsgs
    /\ externalPublish(m, intact)

NextBridge ==
    \/ \E m \in BridgeMessages, intact \in BOOLEAN : BusPublish(m, intact)
    \/ \E msg \in bus, survives \in BOOLEAN : Bridge(msg, survives)

SpecBridge == Init /\ [][NextBridge]_vars

--------------------------------------------------------------------------
(* The topic translation on its own: render then parse, parse then render *)

\* what authorizePublish makes of a topic it does not refuse: the channel
\* of accessReq and of the envelope, and the envelope's subtopic
parsePublishTopic(topic) ==
    LET channel == parseTopic(topic)
        elements == elementsOf(topic)
    IN  IF channel = noMatch \/ invalidSubtopic(elements)
        THEN [refused |-> TRUE]
        ELSE [refused |-> FALSE, channel |-> channel[2], subtopic |-> join(elements, ".")]

\* channel ids without '/' and '.'
IdChars == {"a", "\n"}
Ids == UNION {[1..n -> IdChars] : n \in 1..MaxIdLen}

\* segments of one or two characters
SegChars == {"b", "/", ".", "*", "\n"}
Segs == {<<x>> : x \in SegChars} \cup {<<x, y>> : x \in SegChars, y \in SegChars}
SegSeqs == UNION {[1..n -> Segs] : n \in 0..MaxSegs}

\* the topic a device publishes on for a channel and a list of segments
deviceTopic(id, segments) ==
    S_channelsSlash \o id \o S_slashMessages \o
        (IF segments = <<>> THEN <<>> ELSE <<"/">> \o join(segments, "/"))

InitTopic ==
    /\ clients = [c \in Clients |->
                    [status |-> "new", id |-> packetClientId(c),
                     thingId |-> undefined, password |-> undefined]]
    /\ connects = [c \in Clients |-> none]
    /\ reqs = <<>>
    /\ nats = <<>>
    /\ bus = {}
    /\ bridged = <<>>
    /\ mqtt = <<>>
    /\ stream = <<>>
    /\ extCount = 0
    /\ process = "running"
    /\ boot = booted
    /\ writer = noWriter
    /\ ui = noUi
    /\ \E id \in Ids, segments \in SegSeqs :
          rt = [op |-> "input", channel |-> id, segments |-> segments]
    /\ outbound = noOutbound
    /\ svc = noService
    /\ fleet = noFleet

\* a message of another service with this channel and these segments as
\* its subtopic is rendered by the bridge, and a device publishes on the
\* rendered topic
RenderParse ==
    /\ rt.op = "input"
    /\ LET m == [channel |-> rt.channel, subtopic |-> join(rt.segments, ".")]
           topic == renderTopic(m)
       IN  rt' = [op |-> "render-parse", channel |-> rt.channel,
                  segments |-> rt.segments, subtopic |-> m.subtopic,
                  topic |-> topic, parsed |-> parsePublishTopic(topic)]
    /\ UNCHANGED <<apart, process, clients, connects, reqs, nats, bus, bridged, mqtt, stream, extCount, peers>>

\* a device publishes on the topic of this channel and these segments, and
\* the envelope made of it is rendered by the bridge of another instance
ParseRender ==
    /\ rt.op = "input"
    /\ LET topic == deviceTopic(rt.channel, rt.segments)
           parsed == parsePublishTopic(topic)
       IN  rt' = [op |-> "parse-render", channel |-> rt.channel,
                  segments |-> rt.segments, topic |-> topic, parsed |-> parsed,
                  rendered |-> IF parsed.refused THEN noMatch ELSE renderTopic(parsed)]
    /\ UNCHANGED <<apart, process, clients, connects, reqs, nats, bus, bridged, mqtt, stream, extCount, peers>>

NextTopic == RenderParse \/ ParseRender

SpecTopic == InitTopic /\ [][NextTopic]_vars

--------------------------------------------------------------------------
(* Outbound calls: the RPCs of the adapter to the things service and the    *)
(* NATS publisher of the WebSocket adapter with its circuit breaker         *)

\* the calls made in one run
MaxCalls == 4

\* const maxFailedReqs = 3
maxFailedReqs == 3

\* const maxFailureRatio = 0.6, as a fraction
maxFailureRatio == <<6, 10>>

\* gobreaker.Counts of a breaker nothing has gone through
noCounts == [Requests |-> 0, TotalFailures |-> 0]

\* float64(a) / float64(b) of two unsigned counts: Go does not panic on a
\* float division by zero, 0/0 is NaN and a/0 is +Inf.  Otherwise the value
\* is kept as the fraction a/b: for 32-bit counts the rounded quotient
\* compares with the constant 0.6 as the exact one does
NaN == <<"NaN">>
Inf == <<"+Inf">>
float64Div(a, b) == IF b # 0 THEN <<a, b>> ELSE IF a = 0 THEN NaN ELSE Inf

\* fr >= ratio on float64: every comparison with NaN is false
float64Geq(fr, ratio) ==
    CASE fr = NaN -> FALSE
      [] fr = Inf -> TRUE
      [] OTHER -> fr[1] * ratio[2] >= ratio[1] * fr[2]

\* a bug: the ratio has to be exceeded
ReadyToTrip_above(counts) ==
    LET fr == float64Div(counts.TotalFailures, counts.Requests)
    IN  /\ counts.Requests >= maxFailedReqs
        /\ ~float64Geq(maxFailureRatio, fr)

\* Settings.ReadyToTrip: fr := float64(TotalFailures) / float64(Requests);
\* return Requests >= maxFailedReqs && fr >= maxFailureRatio
ReadyToTrip(counts) ==
    LET fr == float64Div(counts.TotalFailures, counts.Requests)
    IN  /\ counts.Requests >= maxFailedReqs
        /\ float64Geq(fr, maxFailureRatio)

\* New(nc): the publisher holds the connection and a breaker with these
\* settings, closed and with no counts
New == [cb |-> [state |-> "closed", counts |-> noCounts], calls |-> <<>>]

\* a bug: the subtopic is appended even when it is empty
fmtSubject_always(chanID, subtopic) ==
    <<"c", "h", "a", "n", "n", "e", "l">> \o <<".">> \o chanID \o <<".">> \o subtopic

\* fmtSubject(chanID, subtopic)
fmtSubject(chanID, subtopic) ==
    LET subject == <<"c", "h", "a", "n", "n", "e", "l">> \o <<".">> \o chanID
    IN  IF subtopic # <<>> THEN subject \o <<".">> \o subtopic ELSE subject

\* the RPC methods the adapter calls on its gRPC client
ThingsMethods == {"identify", "CanAccess", "canAccess"}

InitBreaker ==
    /\ clients = [c \in Clients |->
                    [status |-> "new", id |-> packetClientId(c),
                     thingId |-> undefined, password |-> undefined]]
    /\ connects = [c \in Clients |-> none]
    /\ reqs = <<>>
    /\ nats = <<>>
    /\ bus = {}
    /\ bridged = <<>>
    /\ mqtt = <<>>
    /\ stream = <<>>
    /\ extCount = 0
    /\ process = "running"
    /\ boot = booted
    /\ writer = noWriter
    /\ ui = noUi
    /\ rt = [op |-> "none"]
    /\ outbound = New
    /\ svc = noService
    /\ fleet = noFleet

\* proto.Marshal(&msg): the bytes of the message; the encoding is that of
\* the library
Marshal(msg) == <<"proto", msg>>

\* the body of natsPubSub.Publish, as the call it makes and what it returns:
\* data, err := proto.Marshal(&msg); if err != nil { return err };
\* return pubsub.nc.Publish(pubsub.fmtSubject(msg.Channel, msg.Subtopic), data)
published(msg, merr, err) ==
    IF merr
    THEN [via |-> "nats", to |-> <<>>, data |-> <<>>,
          reached |-> FALSE, err |-> TRUE, returned |-> "marshal error"]
    ELSE [via |-> "nats", to |-> fmtSubject(msg.channel, msg.subtopic), data |-> Marshal(msg),
          reached |-> TRUE, err |-> err,
          returned |-> IF err THEN "publish error" ELSE "nil"]

\* natsPubSub.Publish(ctx, token, msg): marshal the message and hand it to
\* nc.Publish on its subject; the result of nc.Publish is returned, or the
\* error of Marshal before anything is published.  The breaker pubsub.cb is
\* not used: the call is not made through it, and its counts and state stay
\* as New left them
Publish(msg, merr, err) ==
    /\ Len(outbound.calls) < MaxCalls
    /\ outbound' = [outbound EXCEPT !.calls = Append(@, published(msg, merr, err))]
    /\ UNCHANGED <<apart, process, clients, connects, reqs, nats, bus, bridged, mqtt, stream,
                   extCount, rt, svc, fleet>>

\* things.identify(identity, onIdentify), things.CanAccess(accessReq,
\* onAuthorize), things.canAccess(accessReq, onAuthorize): the call goes to
\* the service through the gRPC client, and its answer to the callback
ThingsCall(method, err) ==
    /\ Len(outbound.calls) < MaxCalls
    /\ outbound' = [outbound EXCEPT !.calls =
            Append(@, [via |-> "things", to |-> method, reached |-> TRUE, err |-> err])]
    /\ UNCHANGED <<apart, process, clients, connects, reqs, nats, bus, bridged, mqtt, stream,
                   extCount, rt, svc, fleet>>

NextBreaker ==
    \/ \E m \in ExtMessages, merr \in BOOLEAN, err \in BOOLEAN : Publish(m, merr, err)
    \/ \E method \in ThingsMethods, err \in BOOLEAN : ThingsCall(method, err)

SpecBreaker == InitBreaker /\ [][NextBreaker]_vars

--------------------------------------------------------------------------
(* A fleet of adapter instances: every instance runs the same code, so all  *)
(* subscribe to 'channel.>' in the queue group 'mqtts' and all use the      *)
(* Redis emitter for their broker.  NATS hands a message to one member of   *)
(* every queue group subscribed to its subject, and what one broker emits   *)
(* reaches the subscribers of every broker on the same emitter.             *)

\* the messages other services publish in one run
MaxFleetMsgs == 1

Instances == {"A", "B"}

\* the devices, and the instance each is connected to
Devices == {"d1", "d2"}
instanceOf(d) == IF d = "d1" THEN "A" ELSE "B"

\* a bug: the subscription names no queue group, so every instance is on
\* its own
queueOf_own(i) == i

\* the queue group of the 'channel.>' subscription of an instance
queueOf(i) == "mqtts"

\* a bug: the broker is left with its in-memory emitter
emitterOf_local(i) == i

\* the emitter of the broker of an instance: mq: mqRedis, on the Redis of
\* the configuration all instances share
emitterOf(i) == "mqRedis"

\* the filters devices subscribe with, once authorizeSubscribe has granted
\* them
FleetFilters ==
    { T_base \o <<"/", "#">>,                               \* channels/a/messages/#
      S_channelsSlash \o <<"z">> \o S_slashMessages \o <<"/", "#">> }
                                                            \* channels/z/messages/#

RECURSIVE matchLevels(_, _)
\* MQTT topic matching, level by level: '#' takes all that is left, the
\* parent level included, and '+' takes one level
matchLevels(f, t) ==
    IF f = <<>> THEN t = <<>>
    ELSE IF f[1] = <<"#">> THEN TRUE
    ELSE IF t = <<>> THEN FALSE
    ELSE (f[1] = <<"+">> \/ f[1] = t[1]) /\ matchLevels(Tail(f), Tail(t))

\* a subscription with this filter gets the packets of this topic
matches(pattern, topic) == matchLevels(split(pattern, "/"), split(topic, "/"))

\* the sets of instances NATS may hand one message to: one member of
\* every queue group
takerSets ==
    {T \in SUBSET Instances :
        \A g \in {queueOf(i) : i \in Instances} :
           Cardinality({i \in T : queueOf(i) = g}) = 1}

InitFleet ==
    /\ clients = [c \in Clients |->
                    [status |-> "new", id |-> packetClientId(c),
                     thingId |-> undefined, password |-> undefined]]
    /\ connects = [c \in Clients |-> none]
    /\ reqs = <<>>
    /\ nats = <<>>
    /\ bus = {}
    /\ bridged = <<>>
    /\ mqtt = <<>>
    /\ stream = <<>>
    /\ extCount = 0
    /\ process = "running"
    /\ boot = booted
    /\ writer = noWriter
    /\ ui = noUi
    /\ rt = [op |-> "none"]
    /\ outbound = noOutbound
    /\ svc = noService
    /\ fleet = [published |-> 0, bus |-> {}, handled |-> {},
                subs |-> [d \in Devices |-> {}],
                received |-> [d \in Devices |-> <<>>]]

\* a subscription of a device is granted: subscribe(null, packet)
FleetSubscribe(d, pattern) ==
    /\ pattern \notin fleet.subs[d]
    /\ fleet' = [fleet EXCEPT !.subs[d] = @ \cup {pattern}]
    /\ UNCHANGED <<apart, process, clients, connects, reqs, nats, bus, bridged, mqtt, stream,
                   extCount, rt, outbound, svc>>

\* another service publishes an envelope on a subject under 'channel.'
FleetPublish(m) ==
    /\ fleet.published < MaxFleetMsgs
    /\ fleet' = [fleet EXCEPT
            !.published = @ + 1,
            !.bus = @ \cup {[n |-> fleet.published + 1,
                             subject |-> channelTopicOf(m.channel,
                                                        filter(split(m.subtopic, "."))),
                             data |-> encode(m)]}]
    /\ UNCHANGED <<apart, process, clients, connects, reqs, nats, bus, bridged, mqtt, stream,
                   extCount, rt, outbound, svc>>

\* the packets a device gets when these instances run the handler of the
\* 'channel.>' subscription on a message: an instance that forwards it
\* calls aedes.publish(packet), and the packet reaches the device when the
\* device's broker is on the emitter of that instance and the device has a
\* matching subscription
packetsFor(d, msg, takers) ==
    LET m == decode(msg.data)
        emitting == {i \in takers :
                       /\ forwarded(m)
                       /\ emitterOf(i) = emitterOf(instanceOf(d))
                       /\ \E f \in fleet.subs[d] : matches(f, packetOf(m).topic)}
    IN  [k \in 1..Cardinality(emitting) |-> [packet |-> packetOf(m), of |-> msg.n]]

\* NATS hands a message on the bus to the handlers of the 'channel.>'
\* subscriptions, and each runs
Deliver(msg, takers) ==
    /\ msg \in fleet.bus
    /\ takers \in takerSets
    /\ fleet' = [fleet EXCEPT
            !.bus = @ \ {msg},
            !.handled = @ \cup {[n |-> msg.n, by |-> i, data |-> msg.data,
                                 subs |-> fleet.subs] : i \in takers},
            !.received = [d \in Devices |-> @[d] \o packetsFor(d, msg, takers)]]
    /\ UNCHANGED <<apart, process, clients, connects, reqs, nats, bus, bridged, mqtt, stream,
                   extCount, rt, outbound, svc>>

NextFleet ==
    \/ \E d \in Devices, f \in FleetFilters : FleetSubscribe(d, f)
    \/ \E m \in ExtMessages : FleetPublish(m)
    \/ \E msg \in fleet.bus : \E takers \in takerSets : Deliver(msg, takers)

SpecFleet == InitFleet /\ [][NextFleet]_vars

--------------------------------------------------------------------------
(* The things service behind its HTTP endpoints.  The endpoints are the     *)
(* code of the transport; the service they call keeps the things, the       *)
(* channels and the connections between them of one user.                   *)

\* the things, and the channels, created in one run
MaxEntities == 1

nil == "nil"
ErrUnauthorizedAccess == "ErrUnauthorizedAccess"
ErrNotFound == "ErrNotFound"

\* the user's token, and a key nobody has
token == <<"token">>
wrongValue == <<"wrong-value">>

\* ids are 1, 2, ... in the order of creation; wrongID is the id of nothing
wrongID == 0
Ids1 == 1..MaxEntities

\* the key the service gives a thing
keyOf(id) == <<"key", id>>

\* users.Identify(key) succeeds
validUser(key) == key = token

\* newService(tokens)
newService ==
    [nextThing |-> 1, nextChannel |-> 1, things |-> {}, channels |-> {}, conns |-> {}]

\* svc.AddThing(key, thing)
AddThing(s, key) ==
    IF ~validUser(key) THEN [s |-> s, err |-> ErrUnauthorizedAccess, value |-> wrongID]
    ELSE [s |-> [s EXCEPT !.nextThing = @ + 1, !.things = @ \cup {s.nextThing}],
          err |-> nil, value |-> s.nextThing]

\* svc.CreateChannel(key, channel)
CreateChannel(s, key) ==
    IF ~validUser(key) THEN [s |-> s, err |-> ErrUnauthorizedAccess, value |-> wrongID]
    ELSE [s |-> [s EXCEPT !.nextChannel = @ + 1, !.channels = @ \cup {s.nextChannel}],
          err |-> nil, value |-> s.nextChannel]

\* svc.Connect(key, chanID, thingID)
Connect(s, key, chanID, thingID) ==
    IF ~validUser(key) THEN [s |-> s, err |-> ErrUnauthorizedAccess]
    ELSE IF chanID \notin s.channels \/ thingID \notin s.things
    THEN [s |-> s, err |-> ErrNotFound]
    ELSE [s |-> [s EXCEPT !.conns = @ \cup {<<chanID, thingID>>}], err |-> nil]

\* svc.Disconnect(key, chanID, thingID)
Disconnect(s, key, chanID, thingID) ==
    IF ~validUser(key) THEN [s |-> s, err |-> ErrUnauthorizedAccess]
    ELSE IF <<chanID, thingID>> \notin s.conns
    THEN [s |-> s, err |-> ErrNotFound]
    ELSE [s |-> [s EXCEPT !.conns = @ \ {<<chanID, thingID>>}], err |-> nil]

\* svc.RemoveThing(key, id): the thing goes, and its connections with it
RemoveThing(s, key, id) ==
    IF ~validUser(key) THEN [s |-> s, err |-> ErrUnauthorizedAccess]
    ELSE [s |-> [s EXCEPT !.things = @ \ {id},
                          !.conns = {c \in @ : c[2] # id}],
          err |-> nil]

\* not as the service: the connections of a removed channel stay
RemoveChannel_keepsConns(s, key, id) ==
    IF ~validUser(key) THEN [s |-> s, err |-> ErrUnauthorizedAccess]
    ELSE [s |-> [s EXCEPT !.channels = @ \ {id}], err |-> nil]

\* svc.RemoveChannel(key, id): the channel goes, and its connections with it
RemoveChannel(s, key, id) ==
    IF ~validUser(key) THEN [s |-> s, err |-> ErrUnauthorizedAccess]
    ELSE [s |-> [s EXCEPT !.channels = @ \ {id},
                          !.conns = {c \in @ : c[1] # id}],
          err |-> nil]

\* svc.CanAccess(chanID, key): the id of the thing with this key that is
\* connected to the channel
CanAccess(s, chanID, key) ==
    LET having == {c \in s.conns : c[1] = chanID /\ keyOf(c[2]) = key}
    IN  IF having = {} THEN [s |-> s, err |-> ErrUnauthorizedAccess, value |-> wrongID]
        ELSE [s |-> s, err |-> nil, value |-> (CHOOSE c \in having : TRUE)[2]]

\* svc.Identify(key): the id of the thing with this key
Identify(s, key) ==
    LET having == {t \in s.things : keyOf(t) = key}
    IN  IF having = {} THEN [s |-> s, err |-> ErrUnauthorizedAccess, value |-> wrongID]
        ELSE [s |-> s, err |-> nil, value |-> CHOOSE t \in having : TRUE]

\* what req.validate() can answer
ValidateErrs == {nil, ErrNotFound, ErrUnauthorizedAccess}

UserKeys == {token, wrongValue}
ThingKeys == {keyOf(id) : id \in Ids1} \cup {wrongValue}
EntityIds == {wrongID} \cup Ids1

\* what an endpoint answers: the service after it, its error, and whether
\* the service was called
answer(s, err, called, value) ==
    [s |-> s, err |-> err, called |-> called, value |-> value]

addThingEndpoint(s, key, verr) ==
    IF verr # nil THEN answer(s, verr, FALSE, wrongID)
    ELSE LET saved == AddThing(s, key)
         IN  answer(saved.s, saved.err, TRUE, saved.value)

createChannelEndpoint(s, key, verr) ==
    IF verr # nil THEN answer(s, verr, FALSE, wrongID)
    ELSE LET saved == CreateChannel(s, key)
         IN  answer(saved.s, saved.err, TRUE, saved.value)

\* not as the code: a request that fails validation with ErrNotFound is
\* answered with that error
removeThingEndpoint_strict(s, key, id, verr) ==
    IF verr # nil THEN answer(s, verr, FALSE, wrongID)
    ELSE LET r == RemoveThing(s, key, id)
         IN  answer(r.s, r.err, TRUE, wrongID)

removeThingEndpoint(s, key, id, verr) ==
    IF verr = ErrNotFound THEN answer(s, nil, FALSE, wrongID)
    ELSE IF verr # nil THEN answer(s, verr, FALSE, wrongID)
    ELSE LET r == RemoveThing(s, key, id)
         IN  answer(r.s, r.err, TRUE, wrongID)

removeChannelEndpoint(s, key, id, verr) ==
    IF verr # nil
    THEN IF verr = ErrNotFound THEN answer(s, nil, FALSE, wrongID)
         ELSE answer(s, verr, FALSE, wrongID)
    ELSE LET r == RemoveChannel(s, key, id)
         IN  answer(r.s, r.err, TRUE, wrongID)

connectEndpoint(s, key, chanID, thingID, verr) ==
    IF verr # nil THEN answer(s, verr, FALSE, wrongID)
    ELSE LET r == Connect(s, key, chanID, thingID)
         IN  answer(r.s, r.err, TRUE, wrongID)

\* not as the code: the error of the service is dropped
disconnectEndpoint_quiet(s, key, chanID, thingID, verr) ==
    IF verr # nil THEN answer(s, verr, FALSE, wrongID)
    ELSE LET r == Disconnect(s, key, chanID, thingID)
         IN  answer(r.s, nil, TRUE, wrongID)

disconnectEndpoint(s, key, chanID, thingID, verr) ==
    IF verr # nil THEN answer(s, verr, FALSE, wrongID)
    ELSE LET r == Disconnect(s, key, chanID, thingID)
         IN  answer(r.s, r.err, TRUE, wrongID)

\* the service, and the last request it answered
served(op, req, verr, before, a) ==
    [op |-> op, req |-> req, validate |-> verr, before |-> before,
     s |-> a.s, err |-> a.err, called |-> a.called, value |-> a.value]

noReq == [key |-> <<>>, chanID |-> wrongID, thingID |-> wrongID]

InitThings ==
    /\ clients = [c \in Clients |->
                    [status |-> "new", id |-> packetClientId(c),
                     thingId |-> undefined, password |-> undefined]]
    /\ connects = [c \in Clients |-> none]
    /\ reqs = <<>>
    /\ nats = <<>>
    /\ bus = {}
    /\ bridged = <<>>
    /\ mqtt = <<>>
    /\ stream = <<>>
    /\ extCount = 0
    /\ process = "running"
    /\ boot = booted
    /\ writer = noWriter
    /\ ui = noUi
    /\ rt = [op |-> "none"]
    /\ outbound = noOutbound
    /\ fleet = noFleet
    /\ svc = served("new", noReq, nil, newService, answer(newService, nil, FALSE, wrongID))

others == <<apart, process, clients, connects, reqs, nats, bus, bridged, mqtt, stream, extCount, rt,
            outbound, fleet>>

PostThing(key, verr) ==
    /\ svc.s.nextThing <= MaxEntities
    /\ svc' = served("addThing", [noReq EXCEPT !.key = key], verr, svc.s,
                      addThingEndpoint(svc.s, key, verr))
    /\ UNCHANGED others

PostChannel(key, verr) ==
    /\ svc.s.nextChannel <= MaxEntities
    /\ svc' = served("createChannel", [noReq EXCEPT !.key = key], verr, svc.s,
                      createChannelEndpoint(svc.s, key, verr))
    /\ UNCHANGED others

DeleteThing(key, id, verr) ==
    /\ svc' = served("removeThing", [noReq EXCEPT !.key = key, !.thingID = id], verr,
                      svc.s, removeThingEndpoint(svc.s, key, id, verr))
    /\ UNCHANGED others

DeleteChannel(key, id, verr) ==
    /\ svc' = served("removeChannel", [noReq EXCEPT !.key = key, !.chanID = id], verr,
                      svc.s, removeChannelEndpoint(svc.s, key, id, verr))
    /\ UNCHANGED others

PutConnection(key, chanID, thingID, verr) ==
    /\ svc' = served("connect", [key |-> key, chanID |-> chanID, thingID |-> thingID],
                      verr, svc.s, connectEndpoint(svc.s, key, chanID, thingID, verr))
    /\ UNCHANGED others

DeleteConnection(key, chanID, thingID, verr) ==
    /\ svc' = served("disconnect", [key |-> key, chanID |-> chanID, thingID |-> thingID],
                      verr, svc.s, disconnectEndpoint(svc.s, key, chanID, thingID, verr))
    /\ UNCHANGED others

AskCanAccess(chanID, key) ==
    /\ LET r == CanAccess(svc.s, chanID, key)
       IN  svc' = served("canAccess", [noReq EXCEPT !.key = key, !.chanID = chanID], nil,
                         svc.s, answer(r.s, r.err, TRUE, r.value))
    /\ UNCHANGED others

AskIdentify(key) ==
    /\ LET r == Identify(svc.s, key)
       IN  svc' = served("identify", [noReq EXCEPT !.key = key], nil,
                         svc.s, answer(r.s, r.err, TRUE, r.value))
    /\ UNCHANGED others

NextThings ==
    \/ \E key \in UserKeys, verr \in ValidateErrs : PostThing(key, verr)
    \/ \E key \in UserKeys, verr \in ValidateErrs : PostChannel(key, verr)
    \/ \E key \in UserKeys, id \in EntityIds, verr \in ValidateErrs : DeleteThing(key, id, verr)
    \/ \E key \in UserKeys, id \in EntityIds, verr \in ValidateErrs : DeleteChannel(key, id, verr)
    \/ \E key \in UserKeys, ch \in EntityIds, th \in EntityIds, verr \in ValidateErrs :
          PutConnection(key, ch, th, verr)
    \/ \E key \in UserKeys, ch \in EntityIds, th \in EntityIds, verr \in ValidateErrs :
          DeleteConnection(key, ch, th, verr)
    \/ \E ch \in EntityIds, key \in ThingKeys : AskCanAccess(ch, key)
    \/ \E key \in ThingKeys : AskIdentify(key)

SpecThings == InitThings /\ [][NextThings]_vars

--------------------------------------------------------------------------
(* The start of the adapter: node evaluates mqtt.js from top to bottom, and *)
(* only then runs the callbacks of the listeners, of the bus and of the     *)
(* RPCs.  mqtt.js installs no handler for a signal and closes nothing.      *)

\* the signals that ask a process to stop
Signals == {"SIGINT", "SIGTERM"}

InitBoot ==
    /\ clients = [c \in Clients |->
                    [status |-> "new", id |-> packetClientId(c),
                     thingId |-> undefined, password |-> undefined]]
    /\ connects = [c \in Clients |-> none]
    /\ reqs = <<>>
    /\ nats = <<>>
    /\ bus = {}
    /\ bridged = <<>>
    /\ mqtt = <<>>
    /\ stream = <<>>
    /\ extCount = 0
    /\ process = "running"
    /\ boot = [loaded |-> <<>>, closed |-> <<>>, signal |-> "none"]
    /\ writer = noWriter
    /\ ui = noUi
    /\ rt = [op |-> "none"]
    /\ outbound = noOutbound
    /\ svc = noService
    /\ fleet = noFleet

\* the whole of mqtt.js has been evaluated: the event loop runs the callbacks
evaluated == boot.loaded = moduleInitialisation

\* the next top-level statement of mqtt.js is evaluated
Evaluate ==
    /\ process = "running"
    /\ ~evaluated
    /\ boot' = [boot EXCEPT !.loaded =
                    Append(@, moduleInitialisation[Len(boot.loaded) + 1])]
    /\ UNCHANGED <<writer, ui, process, clients, connects, reqs, nats, bus, bridged, mqtt,
                   stream, extCount, rt, outbound, svc, fleet>>

\* the process receives a signal: mqtt.js has no process.on(signal) handler
\* and no call that closes a server, the subscription or a client, so the
\* process ends as node ends a process without a handler, at once
Signal(sig) ==
    /\ process = "running"
    /\ process' = "exited"
    /\ boot' = [boot EXCEPT !.signal = sig]
    /\ UNCHANGED <<writer, ui, clients, connects, reqs, nats, bus, bridged, mqtt,
                   stream, extCount, rt, outbound, svc, fleet>>

\* the callbacks run once the module has been evaluated
Serve == evaluated /\ NextSession

NextBoot ==
    \/ Evaluate
    \/ \E sig \in Signals : Signal(sig)
    \/ Serve

SpecBoot == InitBoot /\ [][NextBoot]_vars

--------------------------------------------------------------------------
(* The trip predicate of the breaker on its own: counts of any size are put *)
(* to ReadyToTrip, as gobreaker does after a failed request                 *)

\* the largest count put to the predicate
MaxRequests == 10

InitTrip ==
    /\ clients = [c \in Clients |->
                    [status |-> "new", id |-> packetClientId(c),
                     thingId |-> undefined, password |-> undefined]]
    /\ connects = [c \in Clients |-> none]
    /\ reqs = <<>>
    /\ nats = <<>>
    /\ bus = {}
    /\ bridged = <<>>
    /\ mqtt = <<>>
    /\ stream = <<>>
    /\ extCount = 0
    /\ process = "running"
    /\ boot = booted
    /\ writer = noWriter
    /\ ui = noUi
    /\ rt = [op |-> "none"]
    /\ \E requests \in 0..MaxRequests, failures \in 0..MaxRequests :
          outbound = [New EXCEPT !.cb.counts =
                          [Requests |-> requests, TotalFailures |-> failures]]
    /\ svc = noService
    /\ fleet = noFleet

\* the breaker asks st.ReadyToTrip(counts) and opens when it answers true
AskReadyToTrip ==
    /\ outbound.cb.state = "closed"
    /\ ~ ("trip" \in DOMAIN outbound.cb)
    /\ outbound' = [outbound EXCEPT !.cb =
            [state |-> IF ReadyToTrip(outbound.cb.counts) THEN "open" ELSE "closed",
             counts |-> outbound.cb.counts,
             trip |-> ReadyToTrip(outbound.cb.counts)]]
    /\ UNCHANGED <<apart, process, clients, connects, reqs, nats, bus, bridged, mqtt, stream,
                   extCount, rt, svc, fleet>>

NextTrip == AskReadyToTrip

SpecTrip == InitTrip /\ [][NextTrip]_vars

--------------------------------------------------------------------------
(* The two publishers on the bus: a device publishes through the MQTT       *)
(* adapter, and the Go publisher is given a message of the same channel and *)
(* subtopic                                                                 *)

\* the next PUBLISH of the device reaches the hook, on any of the topics
TopicPublish(topic, payload) ==
    /\ Len(reqs) < MaxPackets
    /\ clients[Device].status = "connected"
    /\ authorizePublish(Device, topic, payload)

\* natsPubSub.Publish is called with a message of the channel and subtopic
\* of the next envelope the MQTT adapter has published
Relay(merr, err) ==
    /\ Len(outbound.calls) < Len(nats)
    /\ outbound' = [outbound EXCEPT !.calls =
            Append(@, published(decode(nats[Len(outbound.calls) + 1].data), merr, err))]
    /\ UNCHANGED <<apart, process, clients, connects, reqs, nats, bus, bridged, mqtt, stream,
                   extCount, rt, svc, fleet>>

\* the event stream and the bus are up: the subject does not depend on them
NextSubject ==
    \/ \E u \in Usernames, p \in Passwords(Device) : Authenticate(Device, u, p)
    \/ OnIdentify(Device, FALSE, TRUE)
    \/ \E t \in Topics, p \in Payloads : TopicPublish(t, p)
    \/ \E r \in 1..Len(reqs), err \in BOOLEAN : OnAuthorizePublish(r, err, TRUE)
    \/ \E merr \in BOOLEAN, err \in BOOLEAN : Relay(merr, err)

SpecSubject == Init /\ [][NextSubject]_vars

--------------------------------------------------------------------------
(* One session in which the broker still hands packets of a connection to *)
(* the hooks after the clientDisconnect handler has run for it: a packet   *)
(* read before the close, or the will of the connection.  The hooks do not *)
(* look at the state of the connection.                                    *)

\* the connection was accepted and has been closed since
wasDisconnected(c) ==
    /\ clients[c].status = "closed"
    /\ \E l \in 1..Len(connects[c].trace) :
          connects[c].trace[l].e = "acknowledge" /\ connects[c].trace[l].ok

\* a PUBLISH of the closed connection reaches the hook
LatePublish(topic, payload) ==
    /\ Len(reqs) < MaxPackets
    /\ wasDisconnected(Device)
    /\ authorizePublish(Device, topic, payload)

\* a SUBSCRIBE of the closed connection reaches the hook
LateSubscribe(topic) ==
    /\ Len(reqs) < MaxPackets
    /\ wasDisconnected(Device)
    /\ authorizeSubscribe(Device, topic)

NextLate ==
    \/ NextSession
    \/ \E t \in SessionTopics, p \in Payloads : LatePublish(t, p)
    \/ \E t \in SessionFilters : LateSubscribe(t)

SpecLate == Init /\ [][NextLate]_vars

--------------------------------------------------------------------------
(* A writer (src/writers/writer.go): its consumer is subscribed to the     *)
(* normalized messages on the bus and saves those of the configured        *)
(* channels to its repository                                              *)

\* the messages one writer consumes in a run
MaxConsumed == 3

\* the channel lists a writer is configured with
ChannelLists ==
    { <<>>, <<"*">>, <<"a">>, <<"a", "b">>, <<"*", "a">>, <<"*", "*">> }

\* the normalized messages on the bus, and bytes that are no message
WriterMessages == { [channel |-> ch, value |-> "v"] : ch \in {"a", "b", "c", "*"} }
Garbage == <<"garbage">>

\* proto.Unmarshal(m.Data, msg)
Unmarshal(data) ==
    IF data[1] = "proto"
    THEN [err |-> FALSE, msg |-> data[2]]
    ELSE [err |-> TRUE, msg |-> [channel |-> "", value |-> ""]]

\* a bug: a list that names "*" anywhere stands for every channel
channelExists_anyStar(channels, channel) ==
    \E i \in 1..Len(channels) : channels[i] = "*" \/ channels[i] = channel

\* consumer.channelExists(channel)
channelExists(channels, channel) ==
    IF Len(channels) = 1 /\ channels[1] = "*"
    THEN TRUE
    ELSE \E i \in 1..Len(channels) : channels[i] = channel

\* Start(nc, repo, queue, channels, logger): the consumer with its channel
\* list, subscribed, with nothing consumed and an empty repository
Start(channels) == [channels |-> channels, consumed |-> <<>>, repo |-> <<>>]

InitWriter ==
    /\ clients = [c \in Clients |->
                    [status |-> "new", id |-> packetClientId(c),
                     thingId |-> undefined, password |-> undefined]]
    /\ connects = [c \in Clients |-> none]
    /\ reqs = <<>>
    /\ nats = <<>>
    /\ bus = {}
    /\ bridged = <<>>
    /\ mqtt = <<>>
    /\ stream = <<>>
    /\ extCount = 0
    /\ process = "running"
    /\ boot = booted
    /\ \E channels \in ChannelLists : writer = Start(channels)
    /\ ui = noUi
    /\ rt = [op |-> "none"]
    /\ outbound = noOutbound
    /\ svc = noService
    /\ fleet = noFleet

\* consumer.consume(m): return when the data does not unmarshal, return
\* when the channel is not one of the consumer's, else c.repo.Save(*msg),
\* whose error is only logged
consume(data, saveErr) ==
    LET got == Unmarshal(data)
        save == ~got.err /\ channelExists(writer.channels, got.msg.channel)
    IN  /\ writer' = [writer EXCEPT
              !.consumed = Append(@, [data |-> data, save |-> save,
                                      err |-> save /\ saveErr]),
              !.repo = IF save /\ ~saveErr THEN Append(@, got.msg) ELSE @]
        /\ UNCHANGED <<boot, ui, process, clients, connects, reqs, nats, bus, bridged, mqtt,
                       stream, extCount, rt, outbound, svc, fleet>>

\* NATS hands the next message of the subject to the consumer
Consume(data, saveErr) ==
    /\ Len(writer.consumed) < MaxConsumed
    /\ consume(data, saveErr)

NextWriter ==
    \E data \in {Marshal(msg) : msg \in WriterMessages} \cup {Garbage}, saveErr \in BOOLEAN :
        Consume(data, saveErr)

SpecWriter == InitWriter /\ [][NextWriter]_vars

--------------------------------------------------------------------------
(* The Message page of the UI (src/ui/src/Message.elm): the Elm runtime    *)
(* hands every event of the view and every response to update, and carries *)
(* out the commands update returns                                         *)

\* the sends that may be waiting for their response
MaxOutstanding == 3

\* the things of the user with their keys, and the channels each is
\* connected to
UiThings == { [id |-> "t1", key |-> "k1"], [id |-> "t2", key |-> "k2"] }
ChannelsOfThing(thingid) == IF thingid = "t1" THEN {"a", "b"} ELSE {"b"}

\* what the user types into the message field
UiTexts == {"", "hello"}

\* what SentMessage stores of the result of a send
UiResponses == {"202", "error"}

\* initial; things and channels are the lists of Thing.initial and
\* Channel.initial, shown as the rows of the two tables
initial ==
    [message |-> "", thingkey |-> "", response |-> "", things |-> {}, channels |-> {},
     thingid |-> "", checkedChannelsIds |-> <<>>]

\* Helpers.checkEntity id list: the id is taken out of the list when it is
\* there and put in front of it when it is not
checkEntity(id, list) ==
    IF \E i \in 1..Len(list) : list[i] = id
    THEN SelectSeq(list, LAMBDA x : x # id)
    ELSE <<id>> \o list

\* send channelid thingkey message: POST http/channels/<channelid>/messages
\* with the thing key as the authorization and the message as the body
send(channelid, thingkey, message) ==
    [cmd |-> "POST", url |-> <<"http", "channels", channelid, "messages">>,
     key |-> thingkey, body |-> message]

\* Thing.update and Channel.update: a retrieval is a command, and the list
\* that comes back replaces the list shown
updateThing(model, sub) ==
    IF sub.sub = "Retrieved"
    THEN << [model EXCEPT !.things = sub.list], <<>> >>
    ELSE << model, << [cmd |-> "GET", url |-> <<"things">>] >> >>

updateChannel(model, sub) ==
    IF sub.sub = "Retrieved"
    THEN << [model EXCEPT !.channels = sub.list], <<>> >>
    ELSE << model, << [cmd |-> "GET", url |-> <<"things", sub.id, "channels">>] >> >>

\* update msg model token: the new model and the commands
update(msg, model) ==
    CASE msg.type = "SubmitMessage" ->
            << [model EXCEPT !.message = msg.message], <<>> >>
      [] msg.type = "SendMessage" ->
            << [model EXCEPT !.message = "", !.thingkey = "", !.response = "",
                             !.thingid = ""],
               [i \in 1..Len(model.checkedChannelsIds) |->
                   send(model.checkedChannelsIds[i], model.thingkey, model.message)] >>
      [] msg.type = "SentMessage" ->
            << [model EXCEPT !.response = msg.result], <<>> >>
      [] msg.type = "ThingMsg" -> updateThing(model, msg.subMsg)
      [] msg.type = "ChannelMsg" -> updateChannel(model, msg.subMsg)
      [] msg.type = "SelectedThing" ->
            updateChannel([model EXCEPT !.thingid = msg.thingid, !.thingkey = msg.thingkey,
                                        !.checkedChannelsIds = <<>>],
                          [sub |-> "RetrieveChannelsForThing", id |-> msg.thingid])
      [] msg.type = "CheckChannel" ->
            << [model EXCEPT !.checkedChannelsIds = checkEntity(msg.id, @)], <<>> >>

\* the page as it is opened: the initial model, no event handled yet, no
\* request under way
opened ==
    [model |-> initial, outstanding |-> 0, retrieving |-> "",
     last |-> [msg |-> [type |-> "none"], before |-> initial, cmds |-> <<>>]]

InitUi ==
    /\ clients = [c \in Clients |->
                    [status |-> "new", id |-> packetClientId(c),
                     thingId |-> undefined, password |-> undefined]]
    /\ connects = [c \in Clients |-> none]
    /\ reqs = <<>>
    /\ nats = <<>>
    /\ bus = {}
    /\ bridged = <<>>
    /\ mqtt = <<>>
    /\ stream = <<>>
    /\ extCount = 0
    /\ process = "running"
    /\ boot = booted
    /\ writer = noWriter
    /\ ui = opened
    /\ rt = [op |-> "none"]
    /\ outbound = noOutbound
    /\ svc = noService
    /\ fleet = noFleet

\* the runtime hands one message to update, stores the model it returns
\* and carries out its commands
Handle(msg) ==
    LET next == update(msg, ui.model)
        sends == Cardinality({i \in 1..Len(next[2]) : next[2][i].cmd = "POST"})
    IN  /\ ui.outstanding + sends <= MaxOutstanding
        /\ ui' = [model |-> next[1],
                  outstanding |-> ui.outstanding + sends -
                                    (IF msg.type = "SentMessage" THEN 1 ELSE 0),
                  retrieving |-> CASE msg.type = "SelectedThing" -> msg.thingid
                                   [] msg.type = "ChannelMsg" -> ""
                                   [] OTHER -> ui.retrieving,
                  last |-> [msg |-> msg, before |-> ui.model, cmds |-> next[2]]]
        /\ UNCHANGED <<boot, writer, process, clients, connects, reqs, nats, bus, bridged,
                       mqtt, stream, extCount, rt, outbound, svc, fleet>>

\* the user types into the message field
SubmitMessage(message) == Handle([type |-> "SubmitMessage", message |-> message])

\* the user clicks Send
SendMessage == Handle([type |-> "SendMessage"])

\* the response to a send arrives
SentMessage(result) ==
    /\ ui.outstanding > 0
    /\ Handle([type |-> "SentMessage", result |-> result])

\* the list of the user's things arrives
ThingMsg ==
    /\ ui.model.things = {}
    /\ Handle([type |-> "ThingMsg", subMsg |-> [sub |-> "Retrieved", list |-> UiThings]])

\* the list of the channels of the selected thing arrives
ChannelMsg ==
    /\ ui.retrieving # ""
    /\ Handle([type |-> "ChannelMsg",
               subMsg |-> [sub |-> "Retrieved", list |-> ChannelsOfThing(ui.retrieving)]])

\* the user clicks the radio button of a thing in the table
SelectedThing(thing) ==
    /\ thing \in ui.model.things
    /\ Handle([type |-> "SelectedThing", thingid |-> thing.id, thingkey |-> thing.key])

\* the user clicks the checkbox of a channel in the table
CheckChannel(id) ==
    /\ id \in ui.model.channels
    /\ Handle([type |-> "CheckChannel", id |-> id])

NextUi ==
    \/ \E message \in UiTexts : SubmitMessage(message)
    \/ SendMessage
    \/ \E result \in UiResponses : SentMessage(result)
    \/ ThingMsg
    \/ ChannelMsg
    \/ \E thing \in UiThings : SelectedThing(thing)
    \/ \E id \in {"a", "b"} : CheckChannel(id)

SpecUi == InitUi /\ [][NextUi]_vars

--------------------------------------------------------------------------
(* What the claims speak of *)

\* the positions in a trace of the effects of one kind
Pos(t, kind) == {i \in 1..Len(t) : t[i].e = kind}

publishReqs == {r \in 1..Len(reqs) : reqs[r].hook = "authorizePublish"}
subscribeReqs == {r \in 1..Len(reqs) : reqs[r].hook = "authorizeSubscribe"}

\* the publish callback was invoked with 0
accepted(r) == \E l \in Pos(reqs[r].trace, "publish") : reqs[r].trace[l].code = 0

\* the subscribe callback was invoked with null
granted(r) == \E l \in Pos(reqs[r].trace, "subscribe") : reqs[r].trace[l].err = null

\* the thing id Identify returned for a connection
identifiedAs(c) ==
    LET t == connects[c].trace
    IN  t[CHOOSE j \in Pos(t, "ret") : ~t[j].err].value

\* C1: every accepted PUBLISH has, in this order, a CanAccess call with the
\* connection's stored password and the channel id parsed from its topic,
\* a successful return of that call, the bus publish and the accept; and
\* everything on the bus comes from a PUBLISH whose topic was not refused
\* and whose CanAccess returned no error, after that return.
C1_AuthCoverage ==
    /\ \A r \in publishReqs :
          accepted(r) =>
             LET t == reqs[r].trace
                 chanID == parseTopic(reqs[r].topic)[2]
             IN  \E i \in Pos(t, "things.CanAccess"), j \in Pos(t, "ret"),
                    k \in Pos(t, "nats.publish"), l \in Pos(t, "publish") :
                    /\ i < j /\ j < k /\ k < l
                    /\ t[i].req.token = connects[reqs[r].client].pass
                    /\ t[i].req.chanID = chanID
                    /\ ~t[j].err
                    /\ t[l].code = 0
    /\ \A n \in 1..Len(nats) :
          LET r == nats[n].req
              t == reqs[r].trace
          IN  /\ r \in publishReqs
              /\ parseTopic(reqs[r].topic) # noMatch
              /\ ~invalidSubtopic(elementsOf(reqs[r].topic))
              /\ \A j \in Pos(t, "ret") : ~t[j].err
              /\ \E j \in Pos(t, "ret"), k \in Pos(t, "nats.publish") :
                    j < k /\ t[k].data = nats[n].data
    /\ \A r \in publishReqs :
          \A k \in Pos(reqs[r].trace, "nats.publish") :
             \E n \in 1..Len(nats) : nats[n].req = r

\* C1's case: a PUBLISH has been accepted
C1_Witness == \E r \in publishReqs : accepted(r)

\* C2: a subscription is granted only after a CanAccess call with the
\* connection's stored password and the filter's channel id has returned
\* success; a filter that does not parse, or whose CanAccess returned an
\* error, is refused with 4 and never granted.
C2_SubscribeAuth ==
    \A r \in subscribeReqs :
       LET t == reqs[r].trace
       IN  /\ granted(r) =>
                \E i \in Pos(t, "things.canAccess"), j \in Pos(t, "ret"),
                   l \in Pos(t, "subscribe") :
                   /\ i < j /\ j < l
                   /\ t[i].req.token = connects[reqs[r].client].pass
                   /\ t[i].req.chanID = parseTopic(reqs[r].topic)[2]
                   /\ ~t[j].err
                   /\ t[l].err = null
           /\ (parseTopic(reqs[r].topic) = noMatch
                 \/ \E j \in Pos(t, "ret") : t[j].err) =>
                /\ Pos(t, "subscribe") # {}
                /\ \A l \in Pos(t, "subscribe") : t[l].err = "4"

\* C2's case: a subscription has been granted
C2_Witness == \E r \in subscribeReqs : granted(r)

\* the subtopic of a topic, from its path segments after the third: each
\* split on '.', the empty pieces dropped, all of them joined by '.'
RECURSIVE pieces(_)
pieces(segments) ==
    IF segments = <<>> THEN <<>>
    ELSE SelectSeq(split(Head(segments), "."), isEmpty) \o pieces(Tail(segments))

\* C3: every envelope authorizePublish puts on the bus has the thing id
\* Identify returned for the sending connection as publisher, protocol
\* "mqtt", the second path segment of the PUBLISH topic as channel, the
\* dot-joined segments after the third as subtopic and the PUBLISH payload
\* as payload, and its subject is channel.<channel>, followed by
\* .<subtopic> exactly when the subtopic is not empty.
C3_Envelope ==
    \A n \in 1..Len(nats) :
       LET q == reqs[nats[n].req]
           m == decode(nats[n].data)
           p == split(q.topic, "/")
       IN  /\ m.publisher = identifiedAs(q.client)
           /\ m.protocol = "mqtt"
           /\ m.channel = p[2]
           /\ m.subtopic = join(pieces(SubSeq(p, 4, Len(p))), ".")
           /\ m.payload = q.payload
           /\ nats[n].subject =
                 S_channelDot \o m.channel \o
                    (IF m.subtopic # <<>> THEN <<".">> \o m.subtopic ELSE <<>>)

\* C3's case: the connection that came with a client id of its own has an
\* envelope with a subtopic on the bus
C3_Witness ==
    \E n \in 1..Len(nats) :
       /\ reqs[nats[n].req].client = "c2"
       /\ decode(nats[n].data).subtopic # <<>>

\* C4: nothing the bridge decoded with protocol "mqtt" was handed to
\* aedes.publish, and everything handed to aedes.publish was decoded with
\* another protocol.
C4_LoopSuppression ==
    /\ \A d \in 1..Len(bridged) :
          decode(bridged[d].data).protocol = "mqtt" =>
             ~\E i \in 1..Len(mqtt) : mqtt[i].of = d
    /\ \A i \in 1..Len(mqtt) :
          /\ mqtt[i].of \in 1..Len(bridged)
          /\ decode(bridged[mqtt[i].of].data).protocol # "mqtt"

\* C4's case: the bridge has received a message of another MQTT adapter
C4_Witness ==
    \E d \in 1..Len(bridged) :
       bridged[d].from = "other" /\ decode(bridged[d].data).protocol = "mqtt"

\* C5 as claimed: every envelope of an accepted device PUBLISH that has
\* re-entered through the bridge was handed to aedes.publish in the form
\* the bridge renders, for the subscribed devices to receive.
C5_ReentersThroughBridge ==
    \A d \in 1..Len(bridged) :
       bridged[d].from = "mqtt-adapter" =>
          \E i \in 1..Len(mqtt) :
             /\ mqtt[i].of = d
             /\ mqtt[i].packet.topic = renderTopic(decode(bridged[d].data))

\* C5, amended: the envelope of an accepted device PUBLISH is on the bus
\* with protocol "mqtt", and when it re-enters through the bridge it is
\* dropped: nothing is handed to aedes.publish for it.
C5_OwnEnvelopeDropped ==
    /\ \A n \in 1..Len(nats) :
          accepted(nats[n].req) /\ decode(nats[n].data).protocol = "mqtt"
    /\ \A d \in 1..Len(bridged) :
          bridged[d].from = "mqtt-adapter" =>
             /\ \E n \in 1..Len(nats) :
                   n = bridged[d].n /\ nats[n].data = bridged[d].data
             /\ ~\E i \in 1..Len(mqtt) : mqtt[i].of = d

\* C5's case: the envelope of an accepted PUBLISH has reached the bridge
C5_Witness ==
    \E d \in 1..Len(bridged) :
       bridged[d].from = "mqtt-adapter" /\ accepted(nats[bridged[d].n].req)

\* a segment holds one of the wildcard characters
hasWildcard(el) == \E i \in 1..Len(el) : el[i] \in {"*", ">"}

\* the segments of the subtopic of a PUBLISH topic that parses
subtopicSegments(topic) == pieces(slice(split(topic, "/"), 3))

\* the PUBLISH was refused at once: publish(4), no CanAccess, no bus publish
refusedAtOnce(r) ==
    /\ reqs[r].trace = << [e |-> "publish", code |-> 4] >>
    /\ ~\E n \in 1..Len(nats) : nats[n].req = r

\* C6 as claimed: a PUBLISH whose subtopic has a segment with '*' or '>'
\* in it, the segment that is just '*' or '>' included, is refused and
\* nothing is published on the bus for it.
C6_AnyWildcardRejected ==
    \A r \in publishReqs :
       (/\ parseTopic(reqs[r].topic) # noMatch
        /\ \E i \in 1..Len(subtopicSegments(reqs[r].topic)) :
              hasWildcard(subtopicSegments(reqs[r].topic)[i])) =>
          /\ ~accepted(r)
          /\ ~\E n \in 1..Len(nats) : nats[n].req = r

\* C6, amended: a PUBLISH whose subtopic has a segment of two or more
\* characters with '*' or '>' in it is refused at once, with no CanAccess
\* call and no bus publish; a segment that is just '*' or '>' is not
\* refused by this check, and the PUBLISH goes to CanAccess.
C6_WildcardInsideSegment ==
    \A r \in publishReqs :
       LET segs == subtopicSegments(reqs[r].topic)
       IN  parseTopic(reqs[r].topic) # noMatch =>
              IF \E i \in 1..Len(segs) : Len(segs[i]) >= 2 /\ hasWildcard(segs[i])
              THEN refusedAtOnce(r)
              ELSE reqs[r].trace[1].e = "things.CanAccess"

\* C6's case: a PUBLISH with '*' inside a longer segment has been refused
C6_Witness ==
    \E r \in publishReqs :
       /\ parseTopic(reqs[r].topic) # noMatch
       /\ \E i \in 1..Len(subtopicSegments(reqs[r].topic)) :
             /\ Len(subtopicSegments(reqs[r].topic)[i]) >= 2
             /\ hasWildcard(subtopicSegments(reqs[r].topic)[i])
       /\ refusedAtOnce(r)

S_channels == <<"c", "h", "a", "n", "n", "e", "l", "s">>
S_messages == <<"m", "e", "s", "s", "a", "g", "e", "s">>

\* channels/{channelID}/messages or channels/{channelID}/messages/{seg}/...
exactShape(topic) ==
    LET p == split(topic, "/")
    IN  /\ Len(p) >= 3
        /\ p[1] = S_channels
        /\ p[2] # <<>>
        /\ p[3] = S_messages

\* C7 as claimed: a PUBLISH or SUBSCRIBE whose topic is not of the exact
\* shape is refused with 4 without a CanAccess call and without a bus
\* publish.
C7_OnlyExactShape ==
    \A r \in 1..Len(reqs) :
       ~exactShape(reqs[r].topic) =>
          /\ Pos(reqs[r].trace, "things.CanAccess") = {}
          /\ Pos(reqs[r].trace, "things.canAccess") = {}
          /\ Pos(reqs[r].trace, "nats.publish") = {}
          /\ reqs[r].trace \in { << [e |-> "publish", code |-> 4] >>,
                                 << [e |-> "subscribe", err |-> "4"] >> }

\* a channel id: not empty, without '/' and '.'
validChannelId(id) == id # <<>> /\ ~includes(id, "/") /\ ~includes(id, ".")

\* C8 as claimed: the channel id sent to CanAccess and used in the subject
\* and the envelope is not empty and has no '/' and no '.' in it, and the
\* subject carries exactly the path segments after the 'messages' segment.
C8_ChannelIdValid ==
    /\ \A r \in 1..Len(reqs) :
          \A i \in Pos(reqs[r].trace, "things.CanAccess")
                     \cup Pos(reqs[r].trace, "things.canAccess") :
             validChannelId(reqs[r].trace[i].req.chanID)
    /\ \A n \in 1..Len(nats) :
          LET p == split(reqs[nats[n].req].topic, "/")
              m == decode(nats[n].data)
          IN  /\ validChannelId(m.channel)
              /\ p[3] = S_messages
              /\ nats[n].subject =
                    S_channelDot \o m.channel \o
                       (IF pieces(SubSeq(p, 4, Len(p))) # <<>>
                        THEN <<".">> \o join(pieces(SubSeq(p, 4, Len(p))), ".")
                        ELSE <<>>)

\* every segment is free of the characters of a set
without(segments, chars) ==
    \A i \in 1..Len(segments) : \A j \in 1..Len(segments[i]) : segments[i][j] \notin chars

\* C9 as claimed: for a valid channel id and segments without '.', '*' and
\* '>', parsing the topic the bridge renders gives the channel and the
\* subtopic back, and rendering what is parsed from the topic of a channel
\* and path segments gives the topic back.
C9_RoundTripAsClaimed ==
    /\ (rt.op = "render-parse" /\ without(rt.segments, {".", "*", ">"})) =>
          /\ ~rt.parsed.refused
          /\ rt.parsed.channel = rt.channel
          /\ rt.parsed.subtopic = rt.subtopic
    /\ (rt.op = "parse-render" /\ without(rt.segments, {"/", ".", "*", ">"})) =>
          /\ ~rt.parsed.refused
          /\ rt.rendered = rt.topic

\* the characters a round trip does not survive
Lossy == {"/", ".", "*", ">"} \cup LineTerminators

\* C9, amended: the same for channel ids without a line terminator and
\* segments without '/', '.', '*', '>' and line terminators.
C9_RoundTrip ==
    /\ (rt.op = "render-parse" /\ without(<<rt.channel>> \o rt.segments, Lossy)) =>
          /\ ~rt.parsed.refused
          /\ rt.parsed.channel = rt.channel
          /\ rt.parsed.subtopic = rt.subtopic
    /\ (rt.op = "parse-render" /\ without(<<rt.channel>> \o rt.segments, Lossy)) =>
          /\ ~rt.parsed.refused
          /\ rt.parsed.channel = rt.channel
          /\ rt.parsed.subtopic = join(rt.segments, ".")
          /\ rt.rendered = rt.topic

\* C9's case: a topic with two segments has been parsed and rendered again
C9_Witness ==
    /\ rt.op = "parse-render"
    /\ Len(rt.segments) = 2
    /\ without(<<rt.channel>> \o rt.segments, Lossy)
    /\ rt.rendered = rt.topic

\* C10: Identify is called with the presented password ('' when there is
\* none), whatever the username; once it has succeeded the connection has
\* the thing id it returned, the client id of its CONNECT packet or, when
\* that was absent, the thing id, and, until it disconnects, the password,
\* and it was accepted; once it has failed the connection was rejected and
\* has none of them; before that nothing is set.
C10_Authenticate ==
    \A c \in Clients :
       LET q == connects[c]
           t == q.trace
       IN  q.hook = "authenticate" =>
              /\ t[1].e = "things.identify"
              /\ t[1].req.value = (IF q.password = undefined THEN "" ELSE q.password)
              /\ Pos(t, "ret") = {} =>
                    /\ clients[c].thingId = undefined
                    /\ clients[c].id = packetClientId(c)
                    /\ clients[c].password = undefined
                    /\ Pos(t, "acknowledge") = {}
              /\ \A j \in Pos(t, "ret") :
                    IF ~t[j].err
                    THEN /\ clients[c].thingId = t[j].value
                         /\ clients[c].id = (IF packetClientId(c) = "" THEN t[j].value
                                             ELSE packetClientId(c))
                         /\ clients[c].status = "connected" =>
                               clients[c].password = t[1].req.value
                         /\ t[j + 1] = [e |-> "acknowledge", err |-> FALSE, ok |-> TRUE]
                    ELSE /\ clients[c].thingId = undefined
                         /\ clients[c].id = packetClientId(c)
                         /\ clients[c].password = undefined
                         /\ t[j + 1] = [e |-> "acknowledge", err |-> TRUE, ok |-> FALSE]

\* C10's case: a connection without a client id has been accepted and one
\* with a client id too
C10_Witness ==
    /\ clients["c1"].status = "connected" /\ clients["c1"].id = clients["c1"].thingId
    /\ clients["c2"].status = "connected" /\ clients["c2"].id = packetClientId("c2")

\* the CONNECT of a connection was answered acknowledge(null, true)
connectAccepted(c) ==
    \E j \in Pos(connects[c].trace, "acknowledge") : connects[c].trace[j].ok

\* the CONNECT of a connection was answered acknowledge(err, false)
connectRefused(c) ==
    \E j \in Pos(connects[c].trace, "acknowledge") : ~connects[c].trace[j].ok

\* the records of one type on the event stream that name a thing
eventsOf(id, type) ==
    {i \in 1..Len(stream) : stream[i][1][2] = id /\ stream[i][3][2] = type}

\* a record has the four fields in their order, of this process
wellFormedEvent(rec) ==
    /\ Len(rec) = 4
    /\ <<rec[1][1], rec[2][1], rec[3][1], rec[4][1]>> =
          <<"thing_id", "timestamp", "event_type", "instance">>
    /\ rec[2][2] = timestamp
    /\ rec[3][2] \in {"connect", "disconnect"}
    /\ rec[4][2] = instance_id

\* every record is well formed and names the thing of an accepted CONNECT
streamOfAccepted ==
    \A i \in 1..Len(stream) :
       /\ wellFormedEvent(stream[i])
       /\ \E c \in Clients : connectAccepted(c) /\ stream[i][1][2] = clients[c].thingId

\* C11 as claimed: the stream has exactly one 'connect' record for every
\* accepted CONNECT and none for a refused one, and every record has the
\* fields thing_id, timestamp, event_type, instance in this order, with the
\* thing id of the connection.
C11_OneConnectRecord ==
    /\ streamOfAccepted
    /\ \A c \in Clients :
          connectAccepted(c) =>
             Cardinality(eventsOf(clients[c].thingId, "connect")) = 1

\* C11, amended: the stream has at most one 'connect' record for every
\* accepted CONNECT (none when the append failed) and none for a refused
\* one; onIdentify asks for the append once for an accepted CONNECT and
\* never for a refused one; every record is as claimed.
C11_AtMostOneConnectRecord ==
    /\ streamOfAccepted
    /\ \A c \in Clients :
          LET t == connects[c].trace
          IN  /\ connectAccepted(c) =>
                    /\ Cardinality(eventsOf(clients[c].thingId, "connect")) <= 1
                    /\ Cardinality(Pos(t, "publishConnEvent")) = 1
                    /\ \A j \in Pos(t, "publishConnEvent") :
                          /\ t[j].id = clients[c].thingId /\ t[j].type = "connect"
                          /\ \E k \in Pos(t, "acknowledge") : k < j
              /\ ~connectAccepted(c) => Pos(t, "publishConnEvent") = {}

\* C11's case: one CONNECT was accepted and its record is on the stream,
\* the other was refused
C11_Witness ==
    \E c, d \in Clients :
       /\ connectAccepted(c) /\ connectRefused(d)
       /\ eventsOf(clients[c].thingId, "connect") # {}

\* the session of an accepted CONNECT has ended: clientDisconnect has run
sessionEnded(c) == connectAccepted(c) /\ clients[c].status = "closed"

\* C12 as claimed: every accepted CONNECT that has its 'connect' record and
\* whose session has ended has exactly one 'disconnect' record with the
\* same thing id on the stream.
C12_OneDisconnectRecord ==
    \A c \in Clients :
       (sessionEnded(c) /\ eventsOf(clients[c].thingId, "connect") # {}) =>
          Cardinality(eventsOf(clients[c].thingId, "disconnect")) = 1

\* C12, amended: an accepted CONNECT whose session has ended has at most
\* one 'disconnect' record with its thing id on the stream (none when the
\* append failed), after its 'connect' record when that is there; a
\* session that has not ended has none.
C12_AtMostOneDisconnectRecord ==
    \A c \in Clients :
       LET connected == eventsOf(clients[c].thingId, "connect")
           disconnected == eventsOf(clients[c].thingId, "disconnect")
       IN  connectAccepted(c) =>
              /\ Cardinality(disconnected) <= 1
              /\ ~sessionEnded(c) => disconnected = {}
              /\ \A i \in connected, j \in disconnected : i < j

\* C12's case: a session has ended and its 'connect' and 'disconnect'
\* records are on the stream
C12_Witness ==
    \E c \in Clients :
       /\ sessionEnded(c)
       /\ eventsOf(clients[c].thingId, "connect") # {}
       /\ eventsOf(clients[c].thingId, "disconnect") # {}

\* Identify has answered the CONNECT of a connection, with or without error
identifyReturned(c, err) ==
    \E j \in Pos(connects[c].trace, "ret") : connects[c].trace[j].err = err

\* C13: whether a CONNECT is accepted depends on the answer of Identify
\* alone and not on the append of its 'connect' record: it is accepted
\* whenever Identify succeeded and refused whenever Identify failed, with
\* no record appended; and a session whose 'disconnect' record is on the
\* stream is closed like one whose append failed.
C13_AppendFrame ==
    \A c \in Clients :
       /\ identifyReturned(c, FALSE) =>
             /\ connectAccepted(c) /\ ~connectRefused(c)
             /\ clients[c].status \in {"connected", "closed"}
       /\ identifyReturned(c, TRUE) =>
             /\ connectRefused(c) /\ ~connectAccepted(c)
             /\ clients[c].status = "closed"
       /\ (connectAccepted(c) /\ eventsOf(clients[c].thingId, "disconnect") # {}) =>
             sessionEnded(c)

\* C13's case: a CONNECT was accepted and its session has ended, and both
\* appends failed
C13_Witness ==
    \E c \in Clients : sessionEnded(c) /\ stream = <<>>

\* the RPC of a PUBLISH or SUBSCRIBE request has returned an error
rpcFailed(r) == \E j \in Pos(reqs[r].trace, "ret") : reqs[r].trace[j].err

\* every RPC answered so far was answered with an error
outage ==
    /\ \A c \in Clients : ~identifyReturned(c, FALSE)
    /\ \A r \in 1..Len(reqs) : \A j \in Pos(reqs[r].trace, "ret") : reqs[r].trace[j].err

\* C14: a CONNECT whose Identify returned an error is refused and no
\* 'connect' record is asked for; a PUBLISH whose CanAccess returned an
\* error is refused with 4 and puts nothing on the bus; a SUBSCRIBE whose
\* CanAccess returned an error is refused with 4; and as long as every RPC
\* has returned an error, nothing is on the bus or on the event stream and
\* no connection is open.
C14_FailClosed ==
    /\ \A c \in Clients :
          identifyReturned(c, TRUE) =>
             /\ connectRefused(c) /\ ~connectAccepted(c)
             /\ clients[c].status = "closed"
             /\ Pos(connects[c].trace, "publishConnEvent") = {}
    /\ \A r \in publishReqs :
          rpcFailed(r) =>
             /\ ~accepted(r)
             /\ \E l \in Pos(reqs[r].trace, "publish") : reqs[r].trace[l].code = 4
             /\ Pos(reqs[r].trace, "nats.publish") = {}
             /\ ~\E n \in 1..Len(nats) : nats[n].req = r
    /\ \A r \in subscribeReqs :
          rpcFailed(r) =>
             /\ ~granted(r)
             /\ \E l \in Pos(reqs[r].trace, "subscribe") : reqs[r].trace[l].err = "4"
    /\ outage =>
          /\ nats = <<>>
          /\ stream = <<>>
          /\ \A c \in Clients : clients[c].status # "connected"

\* C14's case: the auth service went down after one device had connected:
\* the CONNECT of the other, with a key the service knows, and a PUBLISH of
\* the first, to a channel it is connected to, have been answered with an
\* error
C14_Witness ==
    /\ \E c \in Clients : identifyReturned(c, TRUE) /\ connects[c].pass \in KnownKeys
    /\ \E r \in publishReqs :
          rpcFailed(r) /\ canAccess(reqs[r].trace[1].req)

\* the calls before call k that went the same way as call k
callsBefore(k) == {i \in 1..(k - 1) : outbound.calls[i].via = outbound.calls[k].via}

\* the counts a breaker on the way of call k has when call k has returned
countsAt(k) ==
    [Requests |-> Cardinality(callsBefore(k)) + 1,
     TotalFailures |-> Cardinality({i \in callsBefore(k) \cup {k} : outbound.calls[i].err})]

\* a breaker on the way of call k trips when call k returns
tripsAt(k) == outbound.calls[k].err /\ ReadyToTrip(countsAt(k))

\* C15: the call that follows, on the same way, a failed call after which
\* there are at least 3 requests with a failure ratio of at least 0.6 does
\* not reach the remote service.
C15_BreakerFailsFast ==
    \A k \in 1..Len(outbound.calls) :
       (\E j \in callsBefore(k) : tripsAt(j)) => ~outbound.calls[k].reached

\* C16: every message published on the bus and handed out by NATS was
\* handled by the handler of exactly one instance, and a message still on
\* the bus by none.
C16_OneInstanceHandles ==
    \A n \in 1..fleet.published :
       LET handlers == {h \in fleet.handled : h.n = n}
       IN  IF \E msg \in fleet.bus : msg.n = n
           THEN handlers = {}
           ELSE Cardinality(handlers) = 1

\* C16's case: with two instances in the queue group, a message was handled
C16_Witness ==
    /\ Cardinality({i \in Instances : queueOf(i) = "mqtts"}) >= 2
    /\ \E h \in fleet.handled : h.by = "B"

\* C17: a device that was subscribed to channels/ch/messages/# on one
\* instance when another instance handled a bus message for channel ch
\* with a protocol other than "mqtt" has received exactly one packet for
\* that message, on the rendered topic and with the payload of the message.
C17_FanOut ==
    \A d \in Devices, h \in fleet.handled :
       LET m == decode(h.data)
           got == {k \in 1..Len(fleet.received[d]) : fleet.received[d][k].of = h.n}
       IN  (/\ h.by # instanceOf(d)
            /\ m.protocol # "mqtt"
            /\ (S_channelsSlash \o m.channel \o S_slashMessages \o <<"/", "#">>)
                  \in h.subs[d]) =>
              /\ Cardinality(got) = 1
              /\ \A k \in got :
                    /\ fleet.received[d][k].packet.topic = renderTopic(m)
                    /\ fleet.received[d][k].packet.payload = m.payload

\* C17's case: a device subscribed on instance A has a packet for a message
\* with a subtopic that instance B handled
C17_Witness ==
    \E h \in fleet.handled :
       /\ h.by = "B" /\ instanceOf("d1") = "A"
       /\ decode(h.data).subtopic # <<>>
       /\ \E k \in 1..Len(fleet.received["d1"]) : fleet.received["d1"][k].of = h.n

--------------------------------------------------------------------------
(* The things service: access, removal, connection *)

\* the things that hold the key and are connected to the channel, both
\* existing, when the request came
connectedHolders(s, chanID, key) ==
    {t \in s.things : /\ keyOf(t) = key
                      /\ chanID \in s.channels
                      /\ <<chanID, t>> \in s.conns}

\* C18: CanAccess succeeds, answering the id of the thing, only when the key
\* is that of a thing connected to the given existing channel at the time of
\* the call; for any other key or channel, and for a pair that is not or is
\* no longer connected, it answers ErrUnauthorizedAccess.
C18_CanAccessOnlyConnected ==
    svc.op = "canAccess" =>
        LET holders == connectedHolders(svc.before, svc.req.chanID, svc.req.key)
        IN  /\ svc.err \in {nil, ErrUnauthorizedAccess}
            /\ svc.err = nil <=> holders # {}
            /\ svc.err = nil => svc.value \in holders
            /\ svc.s = svc.before

C18_Witness ==
    /\ svc.op = "canAccess"
    /\ svc.err = nil
    /\ svc.value \in Ids1

\* the entities of the kind a remove request names, and the request again
kindOf(s) == IF svc.op = "removeThing" THEN s.things ELSE s.channels
removedId == IF svc.op = "removeThing" THEN svc.req.thingID ELSE svc.req.chanID
removeAgain ==
    IF svc.op = "removeThing"
    THEN removeThingEndpoint(svc.s, svc.req.key, removedId, svc.validate)
    ELSE removeChannelEndpoint(svc.s, svc.req.key, removedId, svc.validate)

\* C19: removal is idempotent.  A valid remove request with the user's token
\* is answered without error whether the entity exists, was removed before or
\* never existed; the entity is gone afterwards and the same request again
\* changes nothing.  With another key the answer is ErrUnauthorizedAccess and
\* nothing is removed.  A request whose validation yields ErrNotFound is
\* answered with success and the service is not called.
C19_RemoveIdempotent ==
    svc.op \in {"removeThing", "removeChannel"} =>
        /\ (svc.validate = nil /\ svc.req.key = token) =>
               /\ svc.err = nil
               /\ svc.called
               /\ removedId \notin kindOf(svc.s)
               /\ removeAgain.err = nil
               /\ removeAgain.s = svc.s
        /\ (svc.validate = nil /\ svc.req.key # token) =>
               /\ svc.err = ErrUnauthorizedAccess
               /\ svc.s = svc.before
        /\ svc.validate = ErrNotFound =>
               /\ svc.err = nil
               /\ ~svc.called
               /\ svc.s = svc.before

\* a thing that was removed before is removed again
C19_Witness ==
    /\ svc.op = "removeThing"
    /\ svc.validate = nil
    /\ svc.req.key = token
    /\ svc.req.thingID \in Ids1
    /\ svc.req.thingID < svc.before.nextThing
    /\ svc.req.thingID \notin svc.before.things
    /\ svc.err = nil

\* the pair a connection request names, and whether both its ends existed
pairOf(req) == <<req.chanID, req.thingID>>
bothExist(s, req) == req.chanID \in s.channels /\ req.thingID \in s.things

\* C20: a valid Connect of an existing thing to an existing channel with the
\* user's token succeeds and connects the pair; the Disconnect of a connected
\* pair succeeds and the same Disconnect again answers ErrNotFound; Connect
\* or Disconnect naming a thing or a channel that does not exist answers
\* ErrNotFound; with another key both answer ErrUnauthorizedAccess and the
\* connections stay as they were.
C20_ConnectDisconnect ==
    (svc.op \in {"connect", "disconnect"} /\ svc.validate = nil) =>
        /\ svc.called
        /\ svc.req.key # token =>
               /\ svc.err = ErrUnauthorizedAccess
               /\ svc.s.conns = svc.before.conns
        /\ (svc.req.key = token /\ ~bothExist(svc.before, svc.req)) =>
               /\ svc.err = ErrNotFound
               /\ svc.s.conns = svc.before.conns
        /\ (svc.req.key = token /\ svc.op = "connect" /\ bothExist(svc.before, svc.req)) =>
               /\ svc.err = nil
               /\ svc.s.conns = svc.before.conns \cup {pairOf(svc.req)}
        /\ (svc.req.key = token /\ svc.op = "disconnect"
                /\ pairOf(svc.req) \in svc.before.conns) =>
               /\ svc.err = nil
               /\ svc.s.conns = svc.before.conns \ {pairOf(svc.req)}
               /\ disconnectEndpoint(svc.s, token, svc.req.chanID, svc.req.thingID,
                                      nil).err = ErrNotFound
        /\ (svc.req.key = token /\ svc.op = "disconnect"
                /\ pairOf(svc.req) \notin svc.before.conns) =>
               /\ svc.err = ErrNotFound
               /\ svc.s.conns = svc.before.conns

\* an existing thing that is not connected to an existing channel is
\* disconnected from it
C20_Witness ==
    /\ svc.op = "disconnect"
    /\ svc.validate = nil
    /\ svc.req.key = token
    /\ bothExist(svc.before, svc.req)
    /\ pairOf(svc.req) \notin svc.before.conns
    /\ svc.err = ErrNotFound

--------------------------------------------------------------------------
(* Failures on the way to and from the bus *)

\* the nats.publish calls made for request r
handedOver(r) == {n \in 1..Len(nats) : nats[n].req = r}

\* C21: a PUBLISH is accepted only if its envelope went onto the bus; when
\* the bus is down the PUBLISH is refused.
C21_AcceptedOnlyIfOnBus ==
    \A r \in publishReqs :
       accepted(r) => \E n \in handedOver(r) : nats[n].up


\* the MQTT publishes the bridge made for the d-th message it received
publishesOf(d) == {i \in 1..Len(mqtt) : mqtt[i].of = d}

\* C22: a bus message that cannot be decoded gets no MQTT publish, and the
\* bridge keeps running after it.
C22_DropAndKeepRunning ==
    /\ \A d \in 1..Len(bridged) : ~decodable(bridged[d].data) => publishesOf(d) = {}
    /\ process = "running"

\* the topic is one an MQTT publish can carry for the envelope: the channel
\* is not empty and has no '/' or '.', no segment of the subtopic has a
\* wildcard
renderable(m) ==
    /\ validChannelId(m.channel)
    /\ \A i \in 1..Len(split(m.subtopic, ".")) : ~hasWildcard(split(m.subtopic, ".")[i])

\* C23: no MQTT publish is made for an envelope that cannot be rendered into
\* a valid MQTT topic.
C23_UnrenderableDropped ==
    \A d \in 1..Len(bridged) :
       (decodable(bridged[d].data) /\ ~renderable(decode(bridged[d].data)))
          => publishesOf(d) = {}


\* the d-th message the bridge received decodes to an envelope that did not
\* come over MQTT
foreign(d) == decodable(bridged[d].data) /\ decode(bridged[d].data).protocol # "mqtt"

\* C24: for every decoded bus message whose protocol is not "mqtt" the
\* bridge makes exactly one MQTT publish, with QoS 2, retain false, the
\* payload of the envelope, and the topic channels/{channel}/messages,
\* followed for a non-empty subtopic by '/' and the subtopic with '/' in
\* the place of every '.'.
C24_BridgePublish ==
    \A d \in 1..Len(bridged) :
       foreign(d) =>
          LET m == decode(bridged[d].data)
              base == S_channels \o <<"/">> \o m.channel \o <<"/">> \o S_messages
          IN  /\ Cardinality(publishesOf(d)) = 1
              /\ \A i \in publishesOf(d) :
                    /\ mqtt[i].packet.cmd = "publish"
                    /\ mqtt[i].packet.qos = 2
                    /\ mqtt[i].packet.retain = FALSE
                    /\ mqtt[i].packet.payload = m.payload
                    /\ mqtt[i].packet.topic =
                          IF m.subtopic = <<>> THEN base
                          ELSE base \o <<"/">> \o join(split(m.subtopic, "."), "/")

\* an envelope with a subtopic of two segments was published to MQTT
C24_Witness ==
    \E d \in 1..Len(bridged) :
       /\ foreign(d)
       /\ includes(decode(bridged[d].data).subtopic, ".")
       /\ publishesOf(d) # {}


\* what follows 'channels/{channelID}/messages' in a topic
afterMessages(topic, channelId) ==
    SubSeq(topic, Len(S_channelsSlash) + Len(channelId) + Len(S_slashMessages) + 1,
           Len(topic))

\* C25: the subtopic elements authorizePublish derives are the path segments
\* after 'channels/{channelID}/messages', split on '.', without the empty
\* ones; when there are none the subject is channel.{channelID}.
C25_SubtopicAfterMessages ==
    \A r \in publishReqs :
       reqs[r].trace[1].e = "things.CanAccess" =>
          LET tail == afterMessages(reqs[r].topic, reqs[r].channelId)
              expected == pieces(split(tail, "/"))
          IN  /\ reqs[r].elements = expected
              /\ expected = <<>> => reqs[r].channelTopic = baseTopicOf(reqs[r].channelId)


--------------------------------------------------------------------------
(* One session: every packet is authorized on its own *)

\* the request names a topic that parses and, for a PUBLISH, a valid subtopic
authorizable(r) ==
    /\ parseTopic(reqs[r].topic) # noMatch
    /\ r \in publishReqs => ~invalidSubtopic(elementsOf(reqs[r].topic))

\* the calls of CanAccess made for request r
accessCalls(r) ==
    Pos(reqs[r].trace, "things.CanAccess") \cup Pos(reqs[r].trace, "things.canAccess")

\* the request was refused with 4
refused(r) ==
    \/ \E l \in Pos(reqs[r].trace, "publish") : reqs[r].trace[l].code = 4
    \/ \E l \in Pos(reqs[r].trace, "subscribe") : reqs[r].trace[l].err = "4"

\* C26: every PUBLISH and every SUBSCRIBE filter with a topic that parses and
\* a valid subtopic makes exactly one CanAccess call of its own, before any
\* decision; it is accepted only after that call returned success and is
\* refused when that call returned an error, whatever earlier packets of the
\* connection were answered.
C26_NoAuthCache ==
    \A r \in 1..Len(reqs) :
       authorizable(r) =>
          LET t == reqs[r].trace
          IN  /\ accessCalls(r) = {1}
              /\ t[1].req.token = clients[reqs[r].client].password
                    \/ clients[reqs[r].client].status = "closed"
              /\ (accepted(r) \/ granted(r)) =>
                    \E j \in Pos(t, "ret") : ~t[j].err
              /\ (\E j \in Pos(t, "ret") : t[j].err) => refused(r)

\* access was taken away between two PUBLISH packets of one connection on
\* the same channel: the first was accepted, the second refused
C26_Witness ==
    \E r1, r2 \in publishReqs :
       /\ r1 < r2
       /\ reqs[r1].client = reqs[r2].client
       /\ authorizable(r1) /\ authorizable(r2)
       /\ reqs[r1].channelId = reqs[r2].channelId
       /\ accepted(r1)
       /\ rpcFailed(r2) /\ refused(r2)


\* the k-th packet of the session waits for the answer of CanAccess
waiting(k) == k <= Len(reqs) /\ reqs[k].pending

\* the k-th packet of the session has its decision
decided(k) == k <= Len(reqs) /\ ~reqs[k].pending

\* C27: every PUBLISH and SUBSCRIBE handed to the hooks eventually gets its
\* decision, even when the things service never answers CanAccess.
C27_EventuallyDecided ==
    \A k \in 1..MaxPackets : waiting(k) ~> decided(k)


\* C28: the envelopes of one connection are handed to the bus in the order
\* in which its PUBLISH packets reached the hook, in whatever order the
\* answers of CanAccess arrive.
C28_BusOrderIsPacketOrder ==
    \A i, j \in 1..Len(nats) :
       (i < j /\ reqs[nats[i].req].client = reqs[nats[j].req].client)
          => nats[i].req < nats[j].req


\* the thing id Identify returned for a connection
identifiedThing(c) ==
    {connects[c].trace[j].value : j \in {i \in Pos(connects[c].trace, "ret") :
                                           ~connects[c].trace[i].err}}

C30_RefusalKeepsConnection ==
    \A r \in 1..Len(reqs) :
       refused(r) => Pos(reqs[r].trace, "clientDisconnect") = {}

--------------------------------------------------------------------------
(* The start and the stop of the adapter *)

\* the component a statement of mqtt.js creates or starts, by its place in
\* the order shared broker state, auth client, bus subscription, listeners;
\* 0 for the statements that start none of the four
rank(stmt) ==
    CASE stmt \in {"aedesRedis", "mqRedis", "aedes"} -> 1
      [] stmt = "things" -> 2
      [] stmt = "nats.subscribe" -> 3
      [] stmt \in {"startMqtt", "startWs"} -> 4
      [] OTHER -> 0

\* the statements evaluated so far that start one of the four components
startedComponents == SelectSeq(boot.loaded, LAMBDA stmt : rank(stmt) > 0)

\* the statement has been evaluated
isLoaded(stmt) == \E i \in 1..Len(boot.loaded) : boot.loaded[i] = stmt

\* a sequence, last element first
Reverse(seq) == [i \in 1..Len(seq) |-> seq[Len(seq) + 1 - i]]

\* the four components are started in their order
startInOrder ==
    \A i, j \in 1..Len(startedComponents) :
        i < j => rank(startedComponents[i]) <= rank(startedComponents[j])

\* no connection reaches a hook before the subscription and the auth client
\* exist
servedAfterStart ==
    \A c \in Clients :
        connects[c].hook # "none" => isLoaded("nats.subscribe") /\ isLoaded("things")

\* a process that got a signal has closed what it had started, last started
\* first
stoppedInReverse == boot.signal # "none" => boot.closed = Reverse(startedComponents)

\* C31: the components are started in the order shared broker state, auth
\* client, bus subscription, transport listeners; the listeners accept
\* connections only after the subscription and the auth client exist; and on
\* INT or TERM the adapter stops them in the reverse order
C31_StartOrderStopReverse == startInOrder /\ servedAfterStart /\ stoppedInReverse

--------------------------------------------------------------------------
(* The trip predicate *)

\* the predicate has been asked about the counts of the breaker
asked == "trip" \in DOMAIN outbound.cb

\* C32: ReadyToTrip answers true exactly when the counted requests are at
\* least 3 and ten times the failures are at least six times the requests;
\* it answers false for zero requests.
C32_ReadyToTrip ==
    asked =>
        LET counts == outbound.cb.counts
        IN  /\ outbound.cb.trip <=>
                  /\ counts.Requests >= 3
                  /\ 10 * counts.TotalFailures >= 6 * counts.Requests
            /\ counts.Requests = 0 => ~outbound.cb.trip

\* the predicate was asked at a ratio of exactly 0.6 over five requests and
\* answered true, and the breaker opened
C32_Witness ==
    /\ asked
    /\ outbound.cb.counts = [Requests |-> 5, TotalFailures |-> 3]
    /\ outbound.cb.trip
    /\ outbound.cb.state = "open"

--------------------------------------------------------------------------
(* The subject of the two publishers *)

\* 'channel.' + chanID, and '.' + subtopic unless the subtopic is empty
subjectOf(chanID, subtopic) ==
    IF subtopic = <<>>
    THEN S_channelDot \o chanID
    ELSE S_channelDot \o chanID \o <<".">> \o subtopic

\* C33: for the channel and subtopic of an envelope the MQTT adapter has
\* published, the Go publisher sends the marshalled message on the subject
\* channel.<chanID>, or channel.<chanID>.<subtopic> when the subtopic is
\* not empty, which is the subject the adapter used; when marshalling
\* fails it returns the marshal error and publishes nothing.
C33_SameSubject ==
    \A k \in 1..Len(outbound.calls) :
       LET call == outbound.calls[k]
           m == decode(nats[k].data)
       IN  IF call.returned = "marshal error"
           THEN ~call.reached
           ELSE /\ call.reached
                /\ call.to = subjectOf(m.channel, m.subtopic)
                /\ call.to = nats[k].subject
                /\ call.data = Marshal(m)

\* both publishers have published on channel.a.b.c, and for another
\* message the Go publisher returned the marshal error
C33_Witness ==
    \E k, l \in 1..Len(outbound.calls) :
       /\ outbound.calls[k].reached
       /\ outbound.calls[k].to = S_channelDot \o <<"a", ".", "b", ".", "c">>
       /\ nats[k].subject = outbound.calls[k].to
       /\ outbound.calls[l].returned = "marshal error"

--------------------------------------------------------------------------
(* After the disconnect *)

\* the CanAccess requests of the packets that reached a hook after the
\* connection had been closed
lateAccessReqs ==
    {reqs[r].trace[1].req : r \in {q \in 1..Len(reqs) :
        /\ reqs[q].status = "closed"
        /\ reqs[q].trace[1].e \in {"things.CanAccess", "things.canAccess"}}}

\* C34: once the clientDisconnect handler has run for a connection its
\* password is null, with the disconnect record on the stream or without
\* it, and stays null: no CanAccess request made afterwards carries the key
\* of the thing.
C34_PasswordCleared ==
    /\ \A c \in Clients : wasDisconnected(c) => clients[c].password = null
    /\ \A i \in 1..Len(stream) :
          stream[i] = connEvent(clients[Device].thingId, "disconnect") =>
              clients[Device].password = null
    /\ \A req \in lateAccessReqs : req.token = null /\ req.token \notin KnownKeys

\* the connection was accepted with key k2 and closed, its disconnect
\* record is on the stream, and a packet that reached a hook afterwards was
\* sent to CanAccess with a null token
C34_Witness ==
    /\ wasDisconnected(Device)
    /\ connects[Device].pass = "k2"
    /\ \E i \in 1..Len(stream) : stream[i] = connEvent("t2", "disconnect")
    /\ lateAccessReqs # {}
    /\ \A req \in lateAccessReqs : req.token = null

\* C35: nothing is handed to nats.publish for a packet of a connection
\* whose clientDisconnect handler has already run, also when the CanAccess
\* call was made before the disconnect and succeeds after it.
C35_NoPublishAfterDisconnect ==
    [][ Len(nats') > Len(nats) =>
            clients[reqs[nats'[Len(nats')].req].client].status # "closed" ]_vars

--------------------------------------------------------------------------
(* The disconnect record and the connect before it *)

\* the 'disconnect' records on the stream
disconnectRecords == {i \in 1..Len(stream) : stream[i][3][2] = "disconnect"}

--------------------------------------------------------------------------
(* The completion callback of the hooks *)

\* the callback the broker gives each hook
callbackOf(hook) ==
    CASE hook = "authenticate" -> "acknowledge"
      [] hook = "authorizePublish" -> "publish"
      [] hook = "authorizeSubscribe" -> "subscribe"

\* in the trace of one invocation: the RPC was made, its returns, and the
\* calls of any completion callback
madeRpc(t) == t[1].e \in {"things.identify", "things.CanAccess", "things.canAccess"}
returnsIn(t) == Cardinality(Pos(t, "ret"))
callbacksIn(t) ==
    Cardinality(Pos(t, "acknowledge") \cup Pos(t, "publish") \cup Pos(t, "subscribe"))

\* one invocation called its own callback once if it made no RPC, and once
\* for the one return of its RPC if it made one; never another hook's
calledBackOnce(q) ==
    /\ returnsIn(q.trace) <= 1
    /\ callbacksIn(q.trace) = Cardinality(Pos(q.trace, callbackOf(q.hook)))
    /\ IF madeRpc(q.trace)
       THEN /\ callbacksIn(q.trace) = returnsIn(q.trace)
            /\ q.pending <=> returnsIn(q.trace) = 0
       ELSE /\ callbacksIn(q.trace) = 1
            /\ ~q.pending

\* C37: every invocation of authenticate, authorizePublish and
\* authorizeSubscribe calls the broker's completion callback exactly once:
\* at once on an unknown topic or an invalid subtopic, and otherwise once
\* when its RPC returns, with an error or without; never twice, and never
\* not at all once the RPC has returned.
C37_CallbackOnce ==
    /\ \A r \in 1..Len(reqs) : calledBackOnce(reqs[r])
    /\ \A c \in Clients : connects[c].hook # "none" => calledBackOnce(connects[c])

\* a CONNECT was acknowledged once after Identify returned, and a packet of
\* that connection was answered once after CanAccess returned an error
C37_Witness ==
    \E r \in 1..Len(reqs) :
       /\ madeRpc(reqs[r].trace)
       /\ \E l \in Pos(reqs[r].trace, "ret") : reqs[r].trace[l].err
       /\ callbacksIn(reqs[r].trace) = 1
       /\ callbacksIn(connects[reqs[r].client].trace) = 1

--------------------------------------------------------------------------
(* The writer *)

\* the channel is one the writer is configured for: named in the list, or
\* the list is the single element "*"
allowedChannel(channels, channel) ==
    \/ channels = <<"*">>
    \/ \E i \in 1..Len(channels) : channels[i] = channel

\* the data is a message
unmarshals(data) == data # Garbage

\* C38: the writer calls Save for a received message exactly when the
\* message unmarshals and its channel is in the configured list, the list
\* standing for all channels only when it is the single element "*";
\* every other message is dropped without a call of Save; the repository
\* holds the messages whose Save succeeded, in order, and a failed Save
\* does not keep later messages from being consumed and saved.
C38_SaveExactly ==
    /\ \A k \in 1..Len(writer.consumed) :
          LET m == writer.consumed[k]
          IN  /\ m.save <=> /\ unmarshals(m.data)
                            /\ allowedChannel(writer.channels, m.data[2].channel)
              /\ m.err => m.save
    /\ writer.repo =
          [i \in 1..Len(SelectSeq(writer.consumed, LAMBDA m : m.save /\ ~m.err)) |->
              SelectSeq(writer.consumed, LAMBDA m : m.save /\ ~m.err)[i].data[2]]

\* a writer configured with "*" and "a" dropped a message of channel b,
\* failed to save one of channel a, and saved the next one of channel a
C38_Witness ==
    /\ writer.channels = <<"*", "a">>
    /\ Len(writer.consumed) = 3
    /\ writer.consumed[1].data = Marshal([channel |-> "b", value |-> "v"])
    /\ ~writer.consumed[1].save
    /\ writer.consumed[2].err
    /\ writer.consumed[3].save /\ ~writer.consumed[3].err
    /\ writer.repo = << [channel |-> "a", value |-> "v"] >>

--------------------------------------------------------------------------
(* The Message page *)

\* C39: a SendMessage event issues exactly one send for every channel
\* checked at that moment, each with the key of the selected thing and the
\* message entered, and never one with an empty thing key.
C39_SendPerCheckedChannel ==
    ui.last.msg.type = "SendMessage" =>
        LET before == ui.last.before
            cmds == ui.last.cmds
        IN  /\ Len(cmds) = Len(before.checkedChannelsIds)
            /\ \A i \in 1..Len(cmds) :
                  /\ cmds[i] = send(before.checkedChannelsIds[i], before.thingkey,
                                    before.message)
                  /\ cmds[i].key # ""
                  /\ \E thing \in UiThings :
                        thing.id = before.thingid /\ thing.key = cmds[i].key

==========================================================================
